---------------------------- MODULE Spec2Model ----------------------------
(***************************************************************************)
(* Model of the double-slit simulation library                             *)
(*   src/Talleres/Segundo Corte/ExperimentoDobleSlit/doble_rendija.py      *)
(* (classes Onda and ExperimentoDobleRendija).                             *)
(*                                                                         *)
(* Python floats are modelled by a decimal floating-point format: a value  *)
(* is a pair <<m, e>> that stands for m * 10^e, with m = 0 (and e = 0) or  *)
(* 10^7 <= |m| < 10^8.  Every arithmetic operator rounds its exact result  *)
(* to the nearest representable value (ties to even), as IEEE-754 binary64 *)
(* does with 53 bits; the exact products and quotients of eight-digit      *)
(* mantissas are computed in halves, inside TLC's 32-bit integers.  The    *)
(* elementary functions np.sin, np.cos and np.arctan are evaluated in that *)
(* format by argument reduction and power series.  Where the code takes    *)
(* int() of a quotient, which depends on the last bit of the binary64      *)
(* results, the computation is done in binary64 itself (see below).        *)
(***************************************************************************)
EXTENDS Integers, Sequences, FiniteSets, TLC

-----------------------------------------------------------------------------
(* Decimal floating point *)

Abs(n) == IF n < 0 THEN -n ELSE n

Pow10(k) == <<1, 10, 100, 1000, 10000, 100000, 1000000, 10000000,
              100000000, 1000000000>>[k + 1]

Pow2(k) == <<1, 2, 4, 8, 16, 32, 64, 128, 256, 512, 1024, 2048, 4096, 8192,
             16384>>[k + 1]

NumDigits(n) ==
    IF n >= 10000000
      THEN (IF n < 100000000 THEN 8 ELSE IF n < 1000000000 THEN 9 ELSE 10)
    ELSE IF n >= 1000
      THEN (IF n < 10000 THEN 4 ELSE IF n < 100000 THEN 5
            ELSE IF n < 1000000 THEN 6 ELSE 7)
    ELSE IF n < 10 THEN 1 ELSE IF n < 100 THEN 2 ELSE 3

\* TLC passes the arguments of an operator unevaluated and evaluates them
\* at each use; EvalN applies an operator to arguments evaluated once.
Eval1(Op(_), a) == CHOOSE r \in {Op(v) : v \in {a}} : TRUE
Eval2(Op(_, _), a, b) ==
    CHOOSE r \in {Op(v, w) : v \in {a}, w \in {b}} : TRUE
Eval3(Op(_, _, _), a, b, c) ==
    CHOOSE r \in {Op(v, w, x) : v \in {a}, w \in {b}, x \in {c}} : TRUE

\* A loop of the arithmetic is a step applied a fixed number of times, the
\* step leaving a finished state as it is: RepN(Op, s) applies Op N times.
Rep8(Op(_), s) ==
    CHOOSE r \in {Op(a8) : a8 \in {Op(a7) : a7 \in {Op(a6) : a6 \in
             {Op(a5) : a5 \in {Op(a4) : a4 \in {Op(a3) : a3 \in
             {Op(a2) : a2 \in {Op(a1) : a1 \in {s}}}}}}}}} : TRUE
Rep64(Op(_), s) == Rep8(LAMBDA x : Rep8(Op, x), s)

\* mag + num/den (0 <= num < den) with k digits too many: the quotient by
\* 10^k rounded on what is dropped, ties to even.
RoundDown(mag, e, k, num, den) ==
    LET q  == mag \div Pow10(k)
        r  == mag % Pow10(k)
        up == IF k = 0
                THEN 2 * num > den \/ (2 * num = den /\ q % 2 = 1)
                ELSE \/ r > 5 * Pow10(k - 1)
                     \/ r = 5 * Pow10(k - 1) /\ (num > 0 \/ q % 2 = 1)
    IN  IF up
          THEN (IF q + 1 = 100000000 THEN <<10000000, e + k + 1>>
                ELSE <<q + 1, e + k>>)
          ELSE <<q, e + k>>

RoundUp(mag, e, k) == <<mag * Pow10(k), e - k>>

\* (mag + num/den) * 10^e, mag of eight digits or more, rounded to eight
\* significant digits, ties to even.
RoundFrac(mag, e, num, den) ==
    RoundDown(mag, e, NumDigits(mag) - 8, num, den)

\* mag * 10^e (mag >= 0) rounded to eight significant digits, ties to even.
Round(mag, e) ==
    IF mag = 0 THEN <<0, 0>>
    ELSE IF mag < 10000000 THEN RoundUp(mag, e, 8 - NumDigits(mag))
    ELSE RoundFrac(mag, e, 0, 1)

FNeg(a) == [a EXCEPT ![1] = -@]
FAbs(a) == [a EXCEPT ![1] = Abs(@)]

NormV(n, e) ==
    IF n < 0 THEN FNeg(Round(-n, e)) ELSE Round(n, e)

\* n * 10^e rounded to the format.
Norm(n, e) == Eval2(NormV, n, e)

Zero == <<0, 0>>
One  == <<10000000, -7>>

\* The non-finite values of IEEE arithmetic: their mantissas (0 with a
\* non-zero exponent, +-1) are mantissas no finite value has.
NaN    == <<0, 1>>
PosInf == <<1, 0>>
NegInf == <<-1, 0>>

IsNaN(a)    == a = NaN
IsInf(a)    == a \in {PosInf, NegInf}
IsFinite(a) == a \notin {NaN, PosInf, NegInf}

IntToF(n) == Norm(n, 0)

\* The exact product of two eight-digit mantissas, computed on their
\* four-digit halves: <<q, r>> with m * n = q * 10^8 + r and r < 10^8.
MulHalves(h) ==
    LET hi  == h[1] * h[3]
        mid == h[1] * h[4] + h[2] * h[3]
        lo  == h[2] * h[4]
        t   == mid + (lo \div 10000)
    IN  <<hi + (t \div 10000), (t % 10000) * 10000 + (lo % 10000)>>
MulExact(m, n) ==
    MulHalves(<<m \div 10000, m % 10000, n \div 10000, n % 10000>>)

\* q * 10^8 + r (q of seven or eight digits) times 10^e, rounded.
MulRoundV(p, e) ==
    IF p[1] >= 10000000 THEN RoundFrac(p[1], e + 8, p[2], 100000000)
    ELSE RoundFrac(p[1] * 10 + (p[2] \div 10000000), e + 7,
                   p[2] % 10000000, 10000000)

\* A product with a factor that is zero, infinite or nan: one whose mantissa
\* has fewer than eight digits.
MulEspecial(a, b) ==
    IF IsNaN(a) \/ IsNaN(b) THEN NaN
    ELSE IF IsInf(a) \/ IsInf(b)
      THEN IF a[1] = 0 \/ b[1] = 0 THEN NaN
           ELSE IF (a[1] < 0) # (b[1] < 0) THEN NegInf ELSE PosInf
    ELSE Zero
MulV(a, b) ==
    IF Abs(a[1]) < 10000000 \/ Abs(b[1]) < 10000000 THEN MulEspecial(a, b)
    ELSE CHOOSE r \in
           {IF (a[1] < 0) # (b[1] < 0) THEN FNeg(MulRoundV(p, a[2] + b[2]))
            ELSE MulRoundV(p, a[2] + b[2]) :
              p \in {MulExact(Abs(a[1]), Abs(b[1]))}} : TRUE

\* a * b
FMul(a, b) == Eval2(MulV, a, b)

\* Long division of the mantissa m by n: s = <<q, r, n, k>> holds the
\* quotient so far, the remainder, the divisor and the digits yet to come.
LongDivStep(s) ==
    IF s[4] = 0 THEN s
    ELSE <<s[1] * 10 + ((s[2] * 10) \div s[3]), (s[2] * 10) % s[3],
           s[3], s[4] - 1>>

\* (m / n) * 10^e for eight-digit m and n: the first digit and seven more
\* when m >= n, eight digits otherwise, rounded on the remainder.
DivInicio(m, n) ==
    IF m >= n THEN <<m \div n, m % n, n, 7>> ELSE <<0, m, n, 8>>
DivRound(m, n, e) ==
    CHOOSE r \in
      {RoundFrac(s8[1], e - (IF m >= n THEN 7 ELSE 8), s8[2], s8[3]) : s8 \in
        {LongDivStep(s7) : s7 \in {LongDivStep(s6) : s6 \in
         {LongDivStep(s5) : s5 \in {LongDivStep(s4) : s4 \in
          {LongDivStep(s3) : s3 \in {LongDivStep(s2) : s2 \in
           {LongDivStep(s1) : s1 \in {LongDivStep(s0) : s0 \in
            {DivInicio(m, n)}}}}}}}}}} : TRUE

\* A quotient with a term that is zero, infinite or nan: one whose mantissa
\* has fewer than eight digits.
DivEspecial(a, b) ==
    IF IsNaN(a) \/ IsNaN(b) THEN NaN
    ELSE IF IsInf(a) THEN (IF IsInf(b) THEN NaN
                           ELSE IF (a[1] < 0) # (b[1] < 0) THEN NegInf ELSE PosInf)
    ELSE IF IsInf(b) THEN Zero
    ELSE IF b[1] = 0
      THEN IF a[1] = 0 THEN NaN ELSE IF a[1] < 0 THEN NegInf ELSE PosInf
    ELSE Zero
DivV(a, b) ==
    IF Abs(a[1]) < 10000000 \/ Abs(b[1]) < 10000000 THEN DivEspecial(a, b)
    ELSE IF (a[1] < 0) # (b[1] < 0)
      THEN FNeg(DivRound(Abs(a[1]), Abs(b[1]), a[2] - b[2]))
    ELSE DivRound(Abs(a[1]), Abs(b[1]), a[2] - b[2])

\* numpy's a / b: x/0 is +-inf and 0/0 is nan (a warning, not an error);
\* otherwise the quotient rounded on its remainder.  (Python's own float
\* division raises on a zero
\* divisor; the divisors of _calcular_parametros_teoricos are validated > 0.)
FDiv(a, b) == Eval2(DivV, a, b)

\* hi + lo, the exponent of hi being d more than that of lo.  Up to one
\* digit apart the sum of the mantissas is exact; further apart lo is cut
\* at one guard digit below hi and what is cut off is rounded on.
\* s = <<|hi| * 10, the digits of |lo| kept, those cut off, their unit,
\*       the exponent, whether the signs agree>>.
AddFar(s) ==
    IF s[6] THEN RoundFrac(s[1] + s[2], s[5], s[3], s[4])
    ELSE IF s[3] = 0 THEN RoundFrac(s[1] - s[2], s[5], 0, 1)
    ELSE RoundFrac(s[1] - s[2] - 1, s[5], s[4] - s[3], s[4])
AddAligned(hi, lo, d) ==
    IF d > 9 THEN hi
    ELSE IF d = 0 THEN NormV(hi[1] + lo[1], lo[2])
    ELSE IF d = 1 THEN NormV(hi[1] * 10 + lo[1], lo[2])
    ELSE IF hi[1] < 0
      THEN FNeg(Eval1(AddFar, <<-hi[1] * 10, Abs(lo[1]) \div Pow10(d - 1),
                                Abs(lo[1]) % Pow10(d - 1), Pow10(d - 1),
                                hi[2] - 1, lo[1] < 0>>))
    ELSE Eval1(AddFar, <<hi[1] * 10, Abs(lo[1]) \div Pow10(d - 1),
                         Abs(lo[1]) % Pow10(d - 1), Pow10(d - 1),
                         hi[2] - 1, lo[1] > 0>>)

\* A sum with a term that is zero, infinite or nan: one whose mantissa
\* has fewer than eight digits.
AddEspecial(a, b) ==
    IF IsNaN(a) \/ IsNaN(b) THEN NaN
    ELSE IF IsInf(a) THEN (IF IsInf(b) /\ a # b THEN NaN ELSE a)
    ELSE IF IsInf(b) THEN b
    ELSE IF a[1] = 0 THEN b
    ELSE a
AddV(a, b) ==
    IF Abs(a[1]) < 10000000 \/ Abs(b[1]) < 10000000 THEN AddEspecial(a, b)
    ELSE IF a[2] >= b[2] THEN AddAligned(a, b, a[2] - b[2])
    ELSE AddAligned(b, a, b[2] - a[2])

\* a + b
FAdd(a, b) == Eval2(AddV, a, b)

\* a - b
FSub(a, b) == FAdd(a, FNeg(b))

\* a < b for two different values, neither nan: by the signs, then by the
\* exponents and the mantissas (the mantissas of +-inf come first or last).
Menor(a, b) ==
    IF IsInf(a) \/ IsInf(b) THEN a = NegInf \/ (b = PosInf /\ a # PosInf)
    ELSE IF a[1] <= 0 /\ b[1] > 0 THEN TRUE
    ELSE IF a[1] < 0 /\ b[1] = 0 THEN TRUE
    ELSE IF a[1] >= 0 /\ b[1] <= 0 THEN FALSE
    ELSE IF a[1] > 0 THEN a[2] < b[2] \/ (a[2] = b[2] /\ a[1] < b[1])
    ELSE IF b[1] > 0 THEN TRUE
    ELSE a[2] > b[2] \/ (a[2] = b[2] /\ a[1] < b[1])
LtV(a, b) == ~IsNaN(a) /\ ~IsNaN(b) /\ a # b /\ Menor(a, b)
LeV(a, b) == ~IsNaN(a) /\ ~IsNaN(b) /\ (a = b \/ Menor(a, b))

\* a < b and a <= b; every comparison with nan is false.
FLt(a, b) == Eval2(LtV, a, b)
FLe(a, b) == Eval2(LeV, a, b)

TruncV(a) ==
    IF a[2] >= 0 THEN a[1] * Pow10(a[2])
    ELSE IF a[2] < -8 THEN 0
    ELSE LET q == Abs(a[1]) \div Pow10(-a[2]) IN IF a[1] < 0 THEN -q ELSE q

\* int(x): truncation towards zero.
FTrunc(a) == Eval1(TruncV, a)

NearestV(a) ==
    IF a[2] >= 0 THEN a[1] * Pow10(a[2])
    ELSE IF a[2] < -8 THEN 0
    ELSE LET p == Pow10(-a[2])
             q == (Abs(a[1]) + p \div 2) \div p
         IN  IF a[1] < 0 THEN -q ELSE q

\* The integer nearest to x.
FNearest(a) == Eval1(NearestV, a)

-----------------------------------------------------------------------------
(* IEEE-754 binary64, for the results whose last bit decides an int() *)

\* A positive normal binary64 value is <<l1, l2, l3, l4, e>>: the 53-bit
\* significand l1 + l2 * 2^14 + l3 * 2^28 + l4 * 2^42 (limbs in base
\* 2^14 = 16384, 2^10 <= l4 < 2^11) times 2^e.

\* The limbs of a number given by its columns (each column may exceed, or
\* be below, the range of a limb): s = <<columns, next column, carry,
\* limbs so far>>.
CarryStep(s) ==
    IF s[2] > Len(s[1]) THEN s
    ELSE <<s[1], s[2] + 1, (s[1][s[2]] + s[3]) \div 16384,
           Append(s[4], (s[1][s[2]] + s[3]) % 16384)>>
Carry(s) == Rep8(CarryStep, s)[4]
Limbs(columns) == Carry(<<columns, 1, 0, <<>>>>)

\* The significand m with one added when up, and the exponent e: the sum
\* 2^53 is 2^52 with the next exponent.
B64Up(m, e, up) ==
    IF ~up THEN m \o <<e>>
    ELSE IF m = <<16383, 16383, 16383, 2047>> THEN <<0, 0, 0, 1024, e + 1>>
    ELSE Limbs(<<m[1] + 1, m[2], m[3], m[4]>>) \o <<e>>

\* The 8 limbs p of a product of two significands (2^104 <= p < 2^106)
\* rounded to 53 bits, ties to even: p without its low 42 + k bits, k = 11
\* when p >= 2^105 and 10 otherwise.
B64MulShift(p, k, e) ==
    B64Up([i \in 1..4 |->
              (p[i + 3] \div Pow2(k)) + (p[i + 4] % Pow2(k)) * Pow2(14 - k)],
          e + 42 + k,
          /\ (p[4] \div Pow2(k - 1)) % 2 = 1
          /\ \/ p[4] % Pow2(k - 1) # 0
             \/ <<p[1], p[2], p[3]>> # <<0, 0, 0>>
             \/ (p[4] \div Pow2(k)) % 2 = 1)
B64MulRound(p, e) ==
    IF p[8] >= 128 THEN B64MulShift(p, 11, e) ELSE B64MulShift(p, 10, e)
B64MulV(x, y) ==
    Eval2(B64MulRound,
          Limbs(<<x[1] * y[1],
                  x[1] * y[2] + x[2] * y[1],
                  x[1] * y[3] + x[2] * y[2] + x[3] * y[1],
                  x[1] * y[4] + x[2] * y[3] + x[3] * y[2] + x[4] * y[1],
                  x[2] * y[4] + x[3] * y[3] + x[4] * y[2],
                  x[3] * y[4] + x[4] * y[3],
                  x[4] * y[4], 0>>),
          x[5] + y[5])

\* x * y in binary64.
B64Mul(x, y) == Eval2(B64MulV, x, y)

\* a >= b for two significands.
B64Ge(a, b) ==
    <<a[4], a[3], a[2], a[1]>> = <<b[4], b[3], b[2], b[1]>>
    \/ \E i \in 1..4 : a[i] > b[i] /\ \A j \in (i + 1)..4 : a[j] = b[j]

\* 2 * a + bit and a - b, in limbs.
B64Twice(a, bit) ==
    <<(2 * a[1] + bit) % 16384,
      (2 * a[2] + (a[1] \div 8192)) % 16384,
      (2 * a[3] + (a[2] \div 8192)) % 16384,
      (2 * a[4] + (a[3] \div 8192)) % 16384>>
B64Minus(a, b) ==
    LET c1 == (a[1] - b[1]) \div 16384
        c2 == (a[2] - b[2] + c1) \div 16384
        c3 == (a[3] - b[3] + c2) \div 16384
    IN  <<(a[1] - b[1]) % 16384, (a[2] - b[2] + c1) % 16384,
          (a[3] - b[3] + c2) % 16384, (a[4] - b[4] + c3) % 16384>>

\* Binary long division: s = <<q, r, d, n>> holds the quotient so far, the
\* remainder r < d, the divisor and the bits yet to come.  One bit: r is
\* doubled and d taken off it when it fits.
B64DivSub(s) ==
    IF B64Ge(s[2], s[3])
      THEN <<B64Twice(s[1], 1), B64Minus(s[2], s[3]), s[3], s[4] - 1>>
    ELSE <<B64Twice(s[1], 0), s[2], s[3], s[4] - 1>>
B64DivBit(s) ==
    IF s[4] = 0 THEN s
    ELSE Eval1(B64DivSub, <<s[1], B64Twice(s[2], 0), s[3], s[4]>>)
B64LongDiv(s) == Rep64(B64DivBit, s)

\* The quotient q of 53 bits with remainder r of the division by d,
\* rounded to nearest, ties to even: up when 2 r > d, or 2 r = d and q odd.
B64DivRound(s, e) ==
    B64Up(s[1], e,
          \/ B64Twice(s[2], 0) # s[3] /\ B64Ge(B64Twice(s[2], 0), s[3])
          \/ B64Twice(s[2], 0) = s[3] /\ s[1][1] % 2 = 1)
B64DivV(x, y) ==
    IF B64Ge(<<x[1], x[2], x[3], x[4]>>, <<y[1], y[2], y[3], y[4]>>)
      THEN Eval2(B64DivRound,
                 B64LongDiv(<<<<1, 0, 0, 0>>,
                              B64Minus(<<x[1], x[2], x[3], x[4]>>,
                                       <<y[1], y[2], y[3], y[4]>>),
                              <<y[1], y[2], y[3], y[4]>>, 52>>),
                 x[5] - y[5] - 52)
    ELSE Eval2(B64DivRound,
               B64LongDiv(<<<<0, 0, 0, 0>>, <<x[1], x[2], x[3], x[4]>>,
                            <<y[1], y[2], y[3], y[4]>>, 53>>),
               x[5] - y[5] - 53)

\* x / y in binary64.
B64Div(x, y) == Eval2(B64DivV, x, y)

\* The value m * 2^e (m > 0 of fewer than 53 bits) with its significand
\* shifted up to 53 bits.
B64NormBitV(s) ==
    IF s[4] >= 1024 THEN s ELSE B64Twice(s, 0) \o <<s[5] - 1>>
B64Norm(s) == Rep64(B64NormBitV, s)

\* The integer n (0 < n < 2^31) as a binary64 value.
B64Int(n) ==
    B64Norm(<<n % 16384, (n \div 16384) % 16384, n \div 268435456, 0, 0>>)

\* 10^n, exact in binary64 for n <= 22: the powers up to 10^9 are
\* integers of the model, the others products of two of them.
B64Pow10(n) ==
    IF n <= 9 THEN B64Int(Pow10(n))
    ELSE IF n <= 18 THEN B64Mul(B64Int(Pow10(9)), B64Int(Pow10(n - 9)))
    ELSE B64Mul(B64Mul(B64Int(Pow10(9)), B64Int(Pow10(9))),
                B64Int(Pow10(n - 18)))

\* The binary64 value of the decimal literal a = m * 10^e > 0 (m < 2^53,
\* |e| <= 22): m and 10^|e| are exact and their product or quotient is
\* rounded once, which gives the value nearest to the literal.
B64Literal(a) ==
    IF a[2] >= 0 THEN B64Mul(B64Int(a[1]), B64Pow10(a[2]))
    ELSE B64Div(B64Int(a[1]), B64Pow10(-a[2]))

\* int(x) of a binary64 value 0 < x < 2^30: the significand without its
\* low -e bits.
B64HalfV(s) ==
    IF s[5] >= 0 THEN s
    ELSE <<(s[1] \div 2) + (s[2] % 2) * 8192,
           (s[2] \div 2) + (s[3] % 2) * 8192,
           (s[3] \div 2) + (s[4] % 2) * 8192,
           s[4] \div 2, s[5] + 1>>
B64Entero(s) == s[1] + s[2] * 16384 + s[3] * 268435456
B64Floor(s) == Eval1(B64Entero, Rep64(B64HalfV, s))
B64Trunc(x) == IF x[5] < -52 THEN 0 ELSE B64Floor(x)

-----------------------------------------------------------------------------
(* Elementary functions of numpy, evaluated in the decimal format *)

\* np.pi and its fractions, rounded to the format.
Pi        == <<31415927, -7>>
HalfPi    == <<15707963, -7>>
QuarterPi == <<78539816, -8>>
\* pi in two parts: the multiples k * PiHi are exact for k < 3000.
PiHi      == <<31415000, -7>>
PiLo      == <<92653590, -12>>
\* Mutant of Half: the literal 0.25.
Cuarto == <<25000000, -8>>

\* The literal 0.5.
Half      == <<50000000, -8>>
Two       == <<20000000, -7>>

\* The power series of sin and cos.  st = <<sum, term, n>>: the sum so far,
\* its last term and the degree of that term; x2 is the square of the
\* argument.  The next term is -term * x2 / ((n+1)(n+2)); the summation
\* stops when a term no longer changes the rounded sum (s = <<sum, term,
\* n, sum before, x2>>, no sum before the first term being nan).
TrigNext(s, p) == FNeg(DivV(p, NormV((s[3] + 1) * (s[3] + 2), 0)))
TrigSum(s, t) == <<AddV(s[1], t), t, s[3] + 2, s[1], s[5]>>
TrigTerm(s) ==
    IF s[1] = s[4] THEN s
    ELSE CHOOSE r \in {TrigSum(s, t) : t \in
                        {TrigNext(s, p) : p \in {MulV(s[2], s[5])}}} : TRUE
TrigSeries(st, x2) == Rep64(TrigTerm, <<st[1], st[2], st[3], NaN, x2>>)[1]

\* sin and cos on the reduced range |r| <= pi/2.
SinReduced(r) ==
    IF r[1] = 0 THEN Zero ELSE TrigSeries(<<r, r, 1>>, MulV(r, r))
CosReduced(r) ==
    IF r[1] = 0 THEN One ELSE TrigSeries(<<One, One, 0>>, MulV(r, r))

\* The multiple k of pi nearest to x, and x - k * PiHi - k * PiLo.
ReduceK(x) == IF LeV(FAbs(x), HalfPi) THEN 0 ELSE NearestV(DivV(x, Pi))
ReduceHi(x, k) == AddV(x, FNeg(MulV(NormV(k, 0), PiHi)))
ReduceLo(h, k) == AddV(h, FNeg(MulV(NormV(k, 0), PiLo)))
\* x = k*pi + r with |r| <= pi/2, the pair <<k, r>>; <<0, nan>> when x is
\* not finite.
Reduce(x) ==
    IF ~IsFinite(x) THEN <<0, NaN>>
    ELSE CHOOSE kr \in
           {<<hk[2], IF hk[2] = 0 THEN x ELSE ReduceLo(hk[1], hk[2])>> :
              hk \in {<<ReduceHi(x, k), k>> : k \in {ReduceK(x)}}} : TRUE

SinV(kr) ==
    IF IsNaN(kr[2]) THEN NaN
    ELSE IF kr[1] % 2 = 0 THEN SinReduced(kr[2]) ELSE FNeg(SinReduced(kr[2]))
CosV(kr) ==
    IF IsNaN(kr[2]) THEN NaN
    ELSE IF kr[1] % 2 = 0 THEN CosReduced(kr[2]) ELSE FNeg(CosReduced(kr[2]))

\* np.sin
Sin(x) == CHOOSE r \in {SinV(kr) : kr \in {Reduce(v) : v \in {x}}} : TRUE

\* np.cos
Cos(x) == CHOOSE r \in {CosV(kr) : kr \in {Reduce(v) : v \in {x}}} : TRUE

\* The arctangent series t - t^3/3 + t^5/5 - ...  st = <<sum, power, n,
\* sign>>: the sum so far, the last odd power of t, its degree and the sign
\* of its term; t2 is the square of t (s = <<sum, power, n, sign, sum
\* before, t2>>, no sum before the first term being nan).
AtanNext(s, p) ==
    IF s[4] > 0 THEN FNeg(DivV(p, NormV(s[3] + 2, 0)))
    ELSE DivV(p, NormV(s[3] + 2, 0))
AtanSum(s, p, t) == <<AddV(s[1], t), p, s[3] + 2, -s[4], s[1], s[6]>>
AtanTerm(s) ==
    IF s[1] = s[5] THEN s
    ELSE CHOOSE r \in {AtanSum(s, q[1], q[2]) : q \in
                        {<<p, AtanNext(s, p)>> : p \in {MulV(s[2], s[6])}}} :
             TRUE
AtanSeries(st, t2) ==
    Rep64(AtanTerm, <<st[1], st[2], st[3], st[4], NaN, t2>>)[1]

AtanSmall(t) ==
    IF t[1] = 0 THEN Zero ELSE AtanSeries(<<t, t, 1, 1>>, MulV(t, t))

\* arctan of t >= 0: the series for t <= 1/2, otherwise
\* pi/4 + arctan((t-1)/(t+1)) up to 2 and pi/2 - arctan(1/t) above.
\* AtanArg is the argument of the series and AtanPos adds what goes with it.
AtanArg(t) ==
    IF LeV(t, Half) THEN t
    ELSE IF LeV(t, Two) THEN FDiv(AddV(t, FNeg(One)), AddV(t, One))
    ELSE DivV(One, t)
AtanPos(t, a) ==
    IF LeV(t, Half) THEN a
    ELSE IF LeV(t, Two) THEN AddV(QuarterPi, a)
    ELSE AddV(HalfPi, FNeg(a))
AtanAbs(t) ==
    CHOOSE r \in {AtanPos(t, a) : a \in
                    {AtanSmall(u) : u \in {AtanArg(t)}}} : TRUE

\* np.arctan
ArcTan(t) ==
    CHOOSE r \in
      {IF IsNaN(v) THEN NaN
       ELSE IF IsInf(v) THEN (IF v[1] < 0 THEN FNeg(HalfPi) ELSE HalfPi)
       ELSE IF v[1] < 0 THEN FNeg(AtanAbs(FNeg(v))) ELSE AtanAbs(v) :
         v \in {t}} : TRUE

-----------------------------------------------------------------------------
(* Bounds of the model and the inputs the operations are called with *)

\* Largest interference order calcular_posiciones_franjas is asked for.
MaxOrden == 5

\* Most attribute reassignments a caller performs on one experiment.
MaxReasignaciones == 2

\* The literal m * 10^e.
F(m, e) == Norm(m, e)

\* Arguments of the constructors: a negative value, zero, and physical
\* values in metres (632 nm, 50 nm; 50/100 um; 50/200/400 um; 1 m, 1.5 m).
LongitudesOnda == {F(-1000, -3), Zero, F(6320, -10), F(5000, -11)}
AnchosRendija  == {Zero, F(5000, -8), F(1000, -7)}
Separaciones   == {F(-2000, -7), Zero, F(5000, -8), F(2000, -7), F(4000, -7)}
Distancias     == {Zero, F(1000, -3), F(1500, -3)}
Amplitudes     == {One}

\* A separation, 350 um, that is 3.5 times the width 100 um.
SeparacionesMedias == {F(3500, -7)}

\* Wavelengths at and around the limits of the range check of Onda:
\* 99.99 nm, 100 nm, 1000 nm, 1001 nm, 2000 nm.
LongitudesLimite == {F(9999, -11), F(1000, -10), F(1000, -9), F(1001, -9),
                     F(2000, -9)}

-----------------------------------------------------------------------------
(* class Onda *)

NoneObj == [tipo |-> "None"]

\* Limits of the range check of Onda.__init__ and the speed of light used.
OndaMin == F(1000, -10)
OndaMax == F(1000, -9)
VelocidadLuz == F(3000, 5)

\* Mutant of OndaRaises: the test written "< 0", which lets zero through.
OndaRaisesEstricto(longitud_onda) == FLt(longitud_onda, Zero)

\* Onda.__init__: the guard that raises ValueError.
OndaRaises(longitud_onda) == FLe(longitud_onda, Zero)

\* Mutant of OndaWarns: the interval taken open, so that its end points
\* warn.
OndaWarnsAbierto(longitud_onda) ==
    ~(FLt(OndaMin, longitud_onda) /\ FLt(longitud_onda, OndaMax))

\* Onda.__init__: the condition of warnings.warn.
OndaWarns(longitud_onda) ==
    ~(FLe(OndaMin, longitud_onda) /\ FLe(longitud_onda, OndaMax))

\* Onda.__init__: the attributes set on self.
OndaNew(longitud_onda, amplitud) ==
    [tipo          |-> "Onda",
     longitud_onda |-> longitud_onda,
     amplitud      |-> amplitud,
     k             |-> FDiv(FMul(Two, Pi), longitud_onda),
     frecuencia    |-> FDiv(VelocidadLuz, longitud_onda)]

\* Mutant of OndaFase: the wavelength taken for the wavenumber.
OndaFaseLongitud(self, distancia) == FMul(self.longitud_onda, distancia)

\* Onda.fase(distancia): self.k * distancia.
OndaFase(self, distancia) == FMul(self.k, distancia)

-----------------------------------------------------------------------------
(* class ExperimentoDobleRendija: construction *)

\* Mutant of Validaciones: every test written "< 0".
ValidacionesEstrictas(longitud_onda, ancho_rendija, separacion, distancia) ==
    IF FLt(longitud_onda, Zero)
      THEN "La longitud de onda debe ser positiva"
    ELSE IF FLt(ancho_rendija, Zero)
      THEN "El ancho de rendija debe ser positivo"
    ELSE IF FLt(separacion, Zero)
      THEN "La separacion debe ser positiva"
    ELSE IF FLt(distancia, Zero)
      THEN "La distancia a la pantalla debe ser positiva"
    ELSE ""

\* The validations of __init__, in order: the message of the first
\* ValueError raised, "" when none is (messages without their accents).
Validaciones(longitud_onda, ancho_rendija, separacion, distancia_pantalla) ==
    IF FLe(longitud_onda, Zero)
      THEN "La longitud de onda debe ser positiva"
    ELSE IF FLe(ancho_rendija, Zero)
      THEN "El ancho de rendija debe ser positivo"
    ELSE IF FLe(separacion, Zero)
      THEN "La separacion debe ser positiva"
    ELSE IF FLe(distancia_pantalla, Zero)
      THEN "La distancia a la pantalla debe ser positiva"
    ELSE ""

\* The ValueError that ends __init__, "" when it completes: one of its own
\* validations, or the one Onda(longitud_onda) raises.
InitError(longitud_onda, ancho_rendija, separacion, distancia_pantalla) ==
    LET v == Validaciones(longitud_onda, ancho_rendija, separacion,
                          distancia_pantalla)
    IN  IF v # "" THEN v
        ELSE IF OndaRaises(longitud_onda)
          THEN "La longitud de onda debe ser positiva. Recibido"
        ELSE ""

\* Mutant of InitWarnings: the overlap test written "<", which leaves
\* equal separation and width without a warning.
InitWarningsEstricto(longitud_onda, ancho_rendija, separacion, distancia_pantalla) ==
    IF Validaciones(longitud_onda, ancho_rendija, separacion,
                    distancia_pantalla) # "" THEN <<>>
    ELSE (IF FLt(separacion, ancho_rendija) THEN <<"solapamiento">> ELSE <<>>)
         \o (IF ~OndaRaises(longitud_onda) /\ OndaWarns(longitud_onda)
               THEN <<"rango visible">> ELSE <<>>)

\* Mutant of InitWarnings: the overlap is tested, and warned of, before
\* the validations.
InitWarningsAntes(longitud_onda, ancho_rendija, separacion, distancia_pantalla) ==
    (IF FLe(separacion, ancho_rendija) THEN <<"solapamiento">> ELSE <<>>)
    \o (IF Validaciones(longitud_onda, ancho_rendija, separacion,
                        distancia_pantalla) = ""
            /\ ~OndaRaises(longitud_onda) /\ OndaWarns(longitud_onda)
          THEN <<"rango visible">> ELSE <<>>)

\* The warnings __init__ emits, in order: none when a validation failed,
\* else its own, then the one of Onda(longitud_onda) unless Onda raises.
InitWarnings(longitud_onda, ancho_rendija, separacion, distancia_pantalla) ==
    IF Validaciones(longitud_onda, ancho_rendija, separacion,
                    distancia_pantalla) # "" THEN <<>>
    ELSE (IF FLe(separacion, ancho_rendija) THEN <<"solapamiento">> ELSE <<>>)
         \o (IF ~OndaRaises(longitud_onda) /\ OndaWarns(longitud_onda)
               THEN <<"rango visible">> ELSE <<>>)

\* int(ancho_central_difraccion / separacion_franjas), the two attributes
\* computed in binary64 from the binary64 values of the arguments l
\* (wavelength), a (width), d (separation) and L (distance).
FranjasVisiblesB64(l, a, d, L) ==
    CHOOSE n \in
      {B64Trunc(q) : q \in
        {B64DivV(p[2], p[1]) : p \in
          {<<B64DivV(lL, d), B64DivV(B64MulV(dosl, L), a)>> :
              lL \in {B64MulV(l, L)}, dosl \in {B64MulV(B64Int(2), l)}}}} :
      TRUE
\* The constructor has validated the four arguments: they are positive
\* (the binary64 chain is defined for positive values; 0 stands for the
\* result on any other argument).
FranjasVisibles(longitud_onda, ancho_rendija, separacion, distancia_pantalla) ==
    IF \E x \in {longitud_onda, ancho_rendija, separacion, distancia_pantalla} :
          ~IsFinite(x) \/ x[1] <= 0
      THEN 0
      ELSE CHOOSE n \in
             {FranjasVisiblesB64(v[1], v[2], v[3], v[4]) : v \in
                {<<B64Literal(longitud_onda), B64Literal(ancho_rendija),
                   B64Literal(separacion), B64Literal(distancia_pantalla)>>}} :
             TRUE

\* Mutant of CalcularParametrosTeoricos: the two slit lengths exchanged.
CalcularParametrosTeoricosCambiados(self) ==
    LET separacion_franjas ==
            FDiv(FMul(self.onda.longitud_onda, self.distancia_pantalla),
                 self.ancho_rendija)
        ancho_central_difraccion ==
            FDiv(FMul(FMul(Two, self.onda.longitud_onda),
                      self.distancia_pantalla),
                 self.separacion)
    IN  [separacion_angular |->
             FDiv(self.onda.longitud_onda, self.ancho_rendija),
         separacion_franjas |-> separacion_franjas,
         ancho_central_difraccion |-> ancho_central_difraccion,
         num_franjas_visibles |->
             FranjasVisibles(self.onda.longitud_onda, self.separacion,
                             self.ancho_rendija, self.distancia_pantalla)]
        @@ self

\* _calcular_parametros_teoricos: the four derived attributes set on self.
CalcularParametrosTeoricos(self) ==
    LET separacion_franjas ==
            FDiv(FMul(self.onda.longitud_onda, self.distancia_pantalla),
                 self.separacion)
        ancho_central_difraccion ==
            FDiv(FMul(FMul(Two, self.onda.longitud_onda),
                      self.distancia_pantalla),
                 self.ancho_rendija)
    IN  [separacion_angular |->
             FDiv(self.onda.longitud_onda, self.separacion),
         separacion_franjas |-> separacion_franjas,
         ancho_central_difraccion |-> ancho_central_difraccion,
         num_franjas_visibles |->
             FranjasVisibles(self.onda.longitud_onda, self.ancho_rendija,
                             self.separacion, self.distancia_pantalla)]
        @@ self

\* __init__ after the validations: the attributes set on self.
ExperimentoNew(longitud_onda, ancho_rendija, separacion, distancia_pantalla) ==
    CalcularParametrosTeoricos(
        [tipo               |-> "ExperimentoDobleRendija",
         onda               |-> OndaNew(longitud_onda, One),
         ancho_rendija      |-> ancho_rendija,
         separacion         |-> separacion,
         distancia_pantalla |-> distancia_pantalla])

-----------------------------------------------------------------------------
(* State *)

VARIABLES
    exp,         \* the caller's experiment object, NoneObj before the first
    ret,         \* the outcome of the call that just returned or raised
    construido,  \* exp as its constructor left it
    reasignados, \* the attributes of exp the caller has reassigned since
    guardado,    \* a result of an earlier query the caller still holds
    otro,        \* a second experiment of the caller and the Onda objects
    figura       \* the call of comparar_experimento_teoria that waits in
                 \* plt.show() for its figure to be closed, Libre when none

vars == <<exp, ret, construido, reasignados, guardado, otro, figura>>

\* No call pending: the caller is between two calls.
Libre == [op |-> "none"]

\* Most queries counted between the call whose result the caller holds
\* and now; the count stays there when more are made.
MaxEntre == 2

\* The caller holds no earlier result.  Otherwise llamada is the outcome
\* held, entre the number of queries made on the experiment since, mutado
\* the parts of the held result the caller has written to, and fallo
\* whether one of those queries raised.
SinGuardar == [llamada |-> Libre, entre |-> 0, mutado |-> {}, fallo |-> FALSE]

\* A query has been made: one more between the held result and now.
Contar(g) ==
    IF g.llamada = Libre \/ g.entre >= MaxEntre THEN g
    ELSE [g EXCEPT !.entre = @ + 1]

\* A query has been made and it raised.
ContarFallo(g) ==
    IF g.llamada = Libre THEN g ELSE [Contar(g) EXCEPT !.fallo = TRUE]

\* Mutant of Nuevo: every call hands out one and the same object.
NuevoReusado(g) == 1

\* The identity of the object a call creates for its result: none of the
\* objects alive, which are those of the result the caller holds.
Nuevo(g) == IF g.llamada # Libre /\ g.llamada.ref = 1 THEN 2 ELSE 1

\* The result valor is stored in the object ref: whoever holds that object
\* sees it.
Almacenar(g, ref, valor) ==
    IF g.llamada # Libre /\ g.llamada.ref = ref
      THEN [g EXCEPT !.llamada.value = valor]
      ELSE g

\* Most Onda objects alive at one time: one for each of the two
\* experiments and the one a constructor is creating.
MaxOndas == 3

\* The caller has no second experiment and no Onda object exists.
\* Otherwise exp is the second experiment, onda_de[i] the identity of the
\* Onda object experiment i refers to (0: none) and ondas[n] the attributes
\* of the Onda object n (NoneObj: no such object).
SinOtro == [exp     |-> NoneObj,
            onda_de |-> <<0, 0>>,
            ondas   |-> [n \in 1..MaxOndas |-> NoneObj]]

\* Mutant of NuevaOnda: one Onda object serves every experiment.
NuevaOndaCompartida(o) == 1

\* Onda(longitud_onda) in __init__ creates an object: its identity is that
\* of no object alive, which are those the experiments refer to.
NuevaOnda(o) ==
    CHOOSE n \in 1..MaxOndas :
        /\ n \notin {o.onda_de[1], o.onda_de[2]}
        /\ \A m \in 1..(n - 1) : m \in {o.onda_de[1], o.onda_de[2]}

\* self.onda is a reference: the experiment obj as it reads with the Onda
\* object id holding what ondas says.
Ver(obj, id, ondas) ==
    IF obj = NoneObj THEN obj ELSE [obj EXCEPT !.onda = ondas[id]]

Init ==
    /\ exp = NoneObj
    /\ ret = Libre
    /\ construido = NoneObj
    /\ reasignados = {}
    /\ guardado = SinGuardar
    /\ otro = SinOtro
    /\ figura = Libre

\* Onda(longitud_onda, amplitud), called by the caller itself
NewOnda(longitud_onda, amplitud) ==
    /\ ret = Libre
    /\ IF OndaRaises(longitud_onda)
         THEN /\ ret' = [op |-> "Onda", args |-> <<longitud_onda, amplitud>>,
                         raised |-> "ValueError", warnings |-> <<>>,
                         value |-> NoneObj]
         ELSE /\ ret' = [op |-> "Onda", args |-> <<longitud_onda, amplitud>>,
                         raised |-> "",
                         warnings |-> IF OndaWarns(longitud_onda)
                                        THEN <<"rango visible">> ELSE <<>>,
                         value |-> OndaNew(longitud_onda, amplitud)]
    /\ UNCHANGED <<exp, construido, reasignados, guardado, otro, figura>>

\* exp = ExperimentoDobleRendija(longitud_onda, ancho_rendija, separacion,
\*                               distancia_pantalla)
NewExperimento(longitud_onda, ancho_rendija, separacion, distancia_pantalla) ==
    LET args == <<longitud_onda, ancho_rendija, separacion, distancia_pantalla>>
        err  == InitError(longitud_onda, ancho_rendija, separacion,
                          distancia_pantalla)
    IN  /\ ret = Libre
        /\ IF err # ""
             THEN /\ ret' = [op |-> "ExperimentoDobleRendija", args |-> args,
                             raised |-> "ValueError", msg |-> err,
                             warnings |-> InitWarnings(longitud_onda,
                                 ancho_rendija, separacion, distancia_pantalla),
                             value |-> NoneObj]
                  /\ UNCHANGED <<exp, construido, reasignados, guardado, otro, figura>>
             ELSE \E self \in {ExperimentoNew(longitud_onda, ancho_rendija,
                                              separacion, distancia_pantalla)} :
                  /\ ret' = [op |-> "ExperimentoDobleRendija", args |-> args,
                             raised |-> "", msg |-> "",
                             warnings |-> InitWarnings(longitud_onda,
                                 ancho_rendija, separacion, distancia_pantalla),
                             value |-> self]
                  /\ exp' = self
                  /\ construido' = self
                  /\ reasignados' = {}
                  /\ UNCHANGED <<guardado, otro, figura>>

\* Mutant of Arange: the same integers from the largest down.
ArangeDescendente(a, b) == [i \in 1..(IF b > a THEN b - a ELSE 0) |-> b - i]

\* Mutant of Arange: the end of the range included.
ArangeInclusivo(a, b) == [i \in 1..(IF b >= a THEN b - a + 1 ELSE 0) |-> a + i - 1]

\* np.arange(a, b) for integers a, b.
Arange(a, b) == [i \in 1..(IF b > a THEN b - a ELSE 0) |-> a + i - 1]

\* calcular_posiciones_franjas(n_max): the ResultadosAnalisis returned.
PosicionesFranjas(self, n_max) ==
    LET ordenes == Arange(-n_max, n_max + 1)
        ordenes_minimos ==
            [i \in DOMAIN Arange(-n_max, n_max) |->
                FAdd(IntToF(Arange(-n_max, n_max)[i]), Half)]
    IN  [posiciones_maximos |->
             [i \in DOMAIN ordenes |->
                 FMul(IntToF(ordenes[i]), self.separacion_franjas)],
         posiciones_minimos |->
             [i \in DOMAIN ordenes_minimos |->
                 FMul(ordenes_minimos[i], self.separacion_franjas)],
         separacion_franjas |-> self.separacion_franjas,
         ancho_central |-> self.ancho_central_difraccion,
         parametros |->
             [longitud_onda_nm |-> FMul(self.onda.longitud_onda, F(1000, 6)),
              ancho_rendija_um |-> FMul(self.ancho_rendija, F(1000, 3)),
              separacion_um |-> FMul(self.separacion, F(1000, 3)),
              distancia_pantalla_m |-> self.distancia_pantalla,
              separacion_franjas_mm |-> FMul(self.separacion_franjas, F(1000, 0)),
              ancho_central_mm |-> FMul(self.ancho_central_difraccion, F(1000, 0)),
              num_franjas_visibles |-> self.num_franjas_visibles]]

\* exp.calcular_posiciones_franjas(n_max)
CalcularPosicionesFranjas(n_max) ==
    /\ ret = Libre
    /\ exp # NoneObj
    /\ ret' = [op |-> "calcular_posiciones_franjas", args |-> <<n_max>>,
               raised |-> "", warnings |-> <<>>, ref |-> Nuevo(guardado),
               value |-> PosicionesFranjas(exp, n_max)]
    /\ guardado' = Almacenar(Contar(guardado), Nuevo(guardado),
                             PosicionesFranjas(exp, n_max))
    /\ UNCHANGED <<exp, construido, reasignados, otro, figura>>

\* Distances fase is asked for, in metres: -0.5, 0, 50 nm, 632 nm, 1.
DistanciasFase == {F(-5000, -4), Zero, F(5000, -11), F(6320, -10), F(1000, -3)}

\* exp.onda.fase(distancia)
Fase(distancia) ==
    /\ ret = Libre
    /\ exp # NoneObj
    /\ ret' = [op |-> "fase", args |-> <<distancia>>, raised |-> "",
               warnings |-> <<>>, value |-> OndaFase(exp.onda, distancia)]
    /\ UNCHANGED <<exp, construido, reasignados, guardado, otro, figura>>

\* The caller has looked at the outcome and goes on.
Return ==
    /\ ret # Libre
    /\ ret' = Libre
    /\ UNCHANGED <<exp, construido, reasignados, guardado, otro, figura>>

Next ==
    \/ \E l \in LongitudesOnda \cup LongitudesLimite, m \in Amplitudes :
          NewOnda(l, m)
    \/ \E l \in LongitudesOnda, a \in AnchosRendija,
          d \in Separaciones \cup SeparacionesMedias, L \in Distancias :
          NewExperimento(l, a, d, L)
    \/ \E n \in -1..MaxOrden : CalcularPosicionesFranjas(n)
    \/ \E x \in DistanciasFase : Fase(x)
    \/ Return

Spec == Init /\ [][Next]_vars

-----------------------------------------------------------------------------
(* A caller that reassigns attributes of the experiment *)

\* The attributes __init__ and _calcular_parametros_teoricos set on self
\* (all of them floats but num_franjas_visibles and onda).
AtributosGeometria == {"ancho_rendija", "separacion", "distancia_pantalla"}
AtributosDerivados == {"separacion_angular", "separacion_franjas",
                       "ancho_central_difraccion"}
Atributos == AtributosGeometria \cup AtributosDerivados
                 \cup {"onda", "num_franjas_visibles"}

\* The values the caller assigns: 300 um to a geometry attribute, 1e-3 to
\* a derived constant, 3 to num_franjas_visibles, and an Onda of 500 nm to
\* onda.
ValoresNuevos(atributo) ==
    IF atributo \in AtributosGeometria THEN {F(3000, -7)}
    ELSE IF atributo \in AtributosDerivados THEN {F(1000, -6)}
    ELSE IF atributo = "onda" THEN {OndaNew(F(5000, -10), One)}
    ELSE {3}

\* exp.<atributo> = valor: the class declares plain instance attributes (no
\* property, __slots__ or __setattr__), so the assignment replaces the one
\* attribute and runs no code of the class.
Reasignar(self, atributo, valor) == [self EXCEPT ![atributo] = valor]

SetAttr(atributo, valor) ==
    /\ ret = Libre
    /\ exp # NoneObj
    /\ Cardinality(reasignados) < MaxReasignaciones
    /\ exp' = Reasignar(exp, atributo, valor)
    /\ reasignados' = reasignados \cup {atributo}
    /\ ret' = [op |-> "setattr", args |-> <<atributo, valor>>, raised |-> "",
               warnings |-> <<>>, value |-> NoneObj]
    /\ UNCHANGED <<construido, guardado, otro, figura>>

\* exp._calcular_parametros_teoricos(), called by the caller: the method
\* of the constructor assigns the four derived constants again, computed
\* from the attributes as they are now.
RecalcularParametros ==
    /\ ret = Libre
    /\ exp # NoneObj
    /\ exp' = CalcularParametrosTeoricos(exp)
    /\ ret' = [op |-> "_calcular_parametros_teoricos", args |-> <<>>,
               raised |-> "", warnings |-> <<>>, value |-> NoneObj]
    /\ UNCHANGED <<construido, reasignados, guardado, otro, figura>>

\* The experiments the constructor builds from the valid inputs.
InitConstruido ==
    /\ \E l \in LongitudesOnda, a \in AnchosRendija, d \in Separaciones,
          L \in Distancias :
          /\ InitError(l, a, d, L) = ""
          /\ exp = ExperimentoNew(l, a, d, L)
    /\ construido = exp
    /\ ret = Libre
    /\ reasignados = {}
    /\ guardado = SinGuardar
    /\ otro = SinOtro
    /\ figura = Libre

NextMutable ==
    \/ \E n \in -1..MaxOrden : CalcularPosicionesFranjas(n)
    \/ Return
    \/ \E a \in Atributos : \E v \in ValoresNuevos(a) : SetAttr(a, v)
    \/ RecalcularParametros

SpecMutable == InitConstruido /\ [][NextMutable]_vars

-----------------------------------------------------------------------------
(* class ExperimentoDobleRendija: the intensity fields *)

\* Longest position sequence the field functions are called with directly.
MaxLen == 2

\* Largest number of points simular is asked for.
MaxPuntos == 101

\* The fewest points simular accepts.
MinPuntos == 100

\* Screen positions, in metres: the centre, +-1e-15 (beta below 1e-12),
\* 1e-14 (beta just above it), +-1 mm, 12.64 mm and 18.96 mm (beta = pi and
\* 3pi/2 for the default experiment).
Posiciones == {Zero, F(1000, -18), F(-1000, -18), F(1000, -17),
               F(1000, -6), F(-1000, -6), F(1264, -5), F(1896, -5)}

SecuenciasY == UNION {[1..n -> Posiciones] : n \in 1..MaxLen}

\* Arguments of simular: widths -1 cm, 0, 1 cm, 2 cm.
AnchosPantalla == {F(-1000, -5), Zero, F(1000, -5), F(2000, -5)}
Puntos == (MinPuntos - 1)..MaxPuntos

\* The threshold and the replacement value 1e-12 of the guard.
Umbral == F(1000, -15)

\* Mutant of BetaSeguro: the test without np.abs.
BetaSeguroSinAbs(beta) == IF FLt(beta, Umbral) THEN Umbral ELSE beta

\* Mutant of BetaSeguro: the limit of the quotient, 1, written as the
\* replacement of beta.
BetaSeguroUno(beta) == IF FLt(FAbs(beta), Umbral) THEN One ELSE beta

\* np.where(np.abs(beta) < 1e-12, 1e-12, beta), for one element.
BetaSeguro(beta) == IF FLt(FAbs(beta), Umbral) THEN Umbral ELSE beta

\* theta = np.arctan(y / self.distancia_pantalla), for one element.
Theta(self, y) == ArcTan(FDiv(y, self.distancia_pantalla))

\* beta = (np.pi * self.ancho_rendija * np.sin(theta)) / longitud_onda
Beta(self, theta) ==
    CHOOSE r \in
      {DivV(p, self.onda.longitud_onda) : p \in
        {MulV(pa[1], pa[2]) : pa \in
          {<<MulV(Pi, self.ancho_rendija), s>> : s \in {Sin(theta)}}}} : TRUE

\* Mutant of Delta: a quarter turn added to the phase.
DeltaDesfasada(self, theta) ==
    CHOOSE r \in
      {AddV(DivV(p, self.onda.longitud_onda), QuarterPi) : p \in
        {MulV(pd[1], pd[2]) : pd \in
          {<<MulV(Pi, self.separacion), s>> : s \in {Sin(theta)}}}} : TRUE

\* delta = (np.pi * self.separacion * np.sin(theta)) / longitud_onda
Delta(self, theta) ==
    CHOOSE r \in
      {DivV(p, self.onda.longitud_onda) : p \in
        {MulV(pd[1], pd[2]) : pd \in
          {<<MulV(Pi, self.separacion), s>> : s \in {Sin(theta)}}}} : TRUE

\* x ** 2
Cuadrado(x) == FMul(x, x)

\* Mutant of Sinc2: the square forgotten.
Sinc2SinCuadrado(beta_seguro) == FDiv(Sin(beta_seguro), beta_seguro)

\* (np.sin(beta_seguro) / beta_seguro) ** 2
Sinc2(beta_seguro) ==
    CHOOSE r \in {MulV(q, q) : q \in
                    {DivV(s, beta_seguro) : s \in {Sin(beta_seguro)}}} : TRUE

\* Mutant of Interferencia: the textbook two-slit factor 4 cos^2.
InterferenciaCuatro(delta) ==
    CHOOSE r \in {MulV(IntToF(4), MulV(c, c)) : c \in {Cos(delta)}} : TRUE

\* (np.cos(delta)) ** 2
Interferencia(delta) ==
    CHOOSE r \in {MulV(c, c) : c \in {Cos(delta)}} : TRUE

\* The assignments of rendija_simple and doble_rendija at one position,
\* each adding a local to the record l of the locals assigned before it.
LocalesTheta(self, y)   == [theta |-> Theta(self, y)]
LocalesBeta(self, l)    == l @@ [beta |-> Beta(self, l.theta)]
LocalesSeguro(l)        == l @@ [beta_seguro |-> BetaSeguro(l.beta)]
LocalesEnvolvente(l)    == l @@ [envolvente |-> Sinc2(l.beta_seguro)]
LocalesDelta(self, l)   == l @@ [delta |-> Delta(self, l.theta)]
LocalesInterferencia(l) == l @@ [interferencia |-> Interferencia(l.delta)]

\* The return statements: the value returned joins the locals.
SimpleValor(l) == l @@ [valor |-> Sinc2(l.beta_seguro)]
DobleValor(l)  == l @@ [valor |-> FMul(l.envolvente, l.interferencia)]

\* rendija_simple at one position: its local values and the value returned.
PuntoSimple(self, y) ==
    CHOOSE l \in
      {SimpleValor(l3) : l3 \in
        {LocalesSeguro(l2) : l2 \in
          {LocalesBeta(self, l1) : l1 \in {LocalesTheta(self, y)}}}} : TRUE

\* doble_rendija at one position: its local values and the value returned.
PuntoDoble(self, y) ==
    CHOOSE l \in
      {DobleValor(l6) : l6 \in
        {LocalesInterferencia(l5) : l5 \in
          {LocalesDelta(self, l4) : l4 \in
            {LocalesEnvolvente(l3) : l3 \in
              {LocalesSeguro(l2) : l2 \in
                {LocalesBeta(self, l1) : l1 \in
                  {LocalesTheta(self, y)}}}}}}} : TRUE

\* rendija_simple(y) and doble_rendija(y): numpy applies every operation
\* element by element.
RendijaSimpleLocales(self, y) == [i \in DOMAIN y |-> PuntoSimple(self, y[i])]
DobleRendijaLocales(self, y)  == [i \in DOMAIN y |-> PuntoDoble(self, y[i])]

ValoresV(locales) == [i \in DOMAIN locales |-> locales[i].valor]
Valores(locales) == Eval1(ValoresV, locales)

\* np.max of the elements lo..hi of an array, by halves: nan if an element
\* is nan.
Max2(m1, m2) ==
    IF IsNaN(m1) \/ IsNaN(m2) THEN NaN ELSE IF LtV(m1, m2) THEN m2 ELSE m1
RECURSIVE MaxRango(_, _, _)
MaxRango(a, lo, hi) ==
    IF lo = hi THEN a[lo]
    ELSE Eval2(Max2, MaxRango(a, lo, (lo + hi) \div 2),
                     MaxRango(a, (lo + hi) \div 2 + 1, hi))
MaxV(a) == MaxRango(a, 1, Len(a))

\* np.max of a non-empty array.
FMax(a) == Eval1(MaxV, a)

\* Mutant of LinspaceV: the end point left out (endpoint=False), the step
\* being (stop - start) / num.
LinspaceSinExtremo(start, stop, num) ==
    LET step == FDiv(FSub(stop, start), IntToF(num))
    IN  [i \in 1..num |-> FAdd(FMul(IntToF(i - 1), step), start)]

\* np.linspace(start, stop, num) for num > 1: arange(0, num) * step + start
\* with step = (stop - start) / (num - 1), the last element set to stop.
LinspaceV(start, stop, num) ==
    LET step == FDiv(FSub(stop, start), IntToF(num - 1))
    IN  [i \in 1..num |->
            IF i = num THEN stop
            ELSE FAdd(FMul(IntToF(i - 1), step), start)]
Linspace(start, stop, num) == Eval3(LinspaceV, start, stop, num)

\* Mutant of SimularError: the resolution test written "<=".
SimularErrorInclusivo(ancho, puntos) ==
    IF FLe(ancho, Zero) THEN "El ancho de la pantalla debe ser positivo"
    ELSE IF puntos <= MinPuntos
      THEN "Se requieren al menos 100 puntos para una buena resolucion"
    ELSE ""

\* The validations of simular: the message of the ValueError, "" if none.
SimularError(ancho, puntos) ==
    IF FLe(ancho, Zero) THEN "El ancho de la pantalla debe ser positivo"
    ELSE IF puntos < MinPuntos
      THEN "Se requieren al menos 100 puntos para una buena resolucion"
    ELSE ""

\* Mutant of Normalizar: the normalisation left out.
NormalizarOmitida(intensidad) == intensidad

\* intensidad / np.max(intensidad)
Dividir(intensidad, maximo) ==
    [i \in DOMAIN intensidad |-> FDiv(intensidad[i], maximo)]
NormalizarV(intensidad) == Eval2(Dividir, intensidad, MaxV(intensidad))
Normalizar(intensidad) == Eval1(NormalizarV, intensidad)

\* simular after its validations: y, the locals of the field function
\* called on y, and the normalised intensity.
Campo(self, y, doble) ==
    IF doble THEN DobleRendijaLocales(self, y)
    ELSE RendijaSimpleLocales(self, y)
Resultado(y, locales) ==
    [y |-> y, locales |-> locales,
     intensidad_normalizada |-> Normalizar(Valores(locales))]
Simulacion(self, ancho, puntos, doble) ==
    CHOOSE r \in UNION
      {{Resultado(y, locales) : locales \in {Campo(self, y, doble)}} :
         y \in {Linspace(FDiv(FNeg(ancho), Two), FDiv(ancho, Two), puntos)}} :
      TRUE

\* exp.rendija_simple(y).  In the outcome args is what the caller passed
\* and y the caller's array as it reads after the call: every statement
\* builds a new array (y / L, np.arctan(...), ...), none writes into y.
RendijaSimple(y) ==
    /\ ret = Libre
    /\ \E locales \in {RendijaSimpleLocales(exp, y)} :
          ret' = [op |-> "rendija_simple", args |-> <<y>>, raised |-> "",
                  warnings |-> <<>>, locales |-> locales, y |-> y,
                  value |-> Valores(locales)]
    /\ guardado' = Contar(guardado)
    /\ UNCHANGED <<exp, construido, reasignados, otro, figura>>

\* Mutant of DobleRendija: the call writes to the Onda of the instance
\* (the wavenumber doubled).
DobleRendijaConEfecto(y) ==
    /\ ret = Libre
    /\ \E locales \in {DobleRendijaLocales(exp, y)} :
          ret' = [op |-> "doble_rendija", args |-> <<y>>, raised |-> "",
                  warnings |-> <<>>, locales |-> locales, y |-> y,
                  value |-> Valores(locales)]
    /\ guardado' = Contar(guardado)
    /\ exp' = [exp EXCEPT !.onda.k = FMul(Two, @)]
    /\ UNCHANGED <<construido, reasignados, otro, figura>>

\* exp.doble_rendija(y)
DobleRendija(y) ==
    /\ ret = Libre
    /\ \E locales \in {DobleRendijaLocales(exp, y)} :
          ret' = [op |-> "doble_rendija", args |-> <<y>>, raised |-> "",
                  warnings |-> <<>>, locales |-> locales, y |-> y,
                  value |-> Valores(locales)]
    /\ guardado' = Contar(guardado)
    /\ UNCHANGED <<exp, construido, reasignados, otro, figura>>

\* Mutant of Simular: the call leaves a trace on the instance (the screen
\* width stored over distancia_pantalla).
SimularConEfecto(ancho, puntos, doble) ==
    /\ ret = Libre
    /\ IF SimularError(ancho, puntos) # ""
         THEN /\ ret' = [op |-> "simular", args |-> <<ancho, puntos, doble>>,
                         raised |-> "ValueError",
                         msg |-> SimularError(ancho, puntos),
                         warnings |-> <<>>, value |-> NoneObj]
              /\ exp' = exp
              /\ guardado' = ContarFallo(guardado)
         ELSE /\ \E s \in {Simulacion(exp, ancho, puntos, doble)} :
                   ret' = [op |-> "simular",
                           args |-> <<ancho, puntos, doble>>,
                           raised |-> "", msg |-> "", warnings |-> <<>>,
                           ref |-> Nuevo(guardado), locales |-> s.locales,
                           value |-> <<s.y, s.intensidad_normalizada>>]
              /\ exp' = [exp EXCEPT !.distancia_pantalla = ancho]
              /\ guardado' = Contar(guardado)
    /\ UNCHANGED <<construido, reasignados, otro, figura>>

\* Mutant of Simular: too few points are raised to the minimum and the
\* simulation goes on.
SimularAjustado(ancho, puntos, doble) ==
    /\ ret = Libre
    /\ IF SimularError(ancho, MinPuntos) # ""
         THEN /\ ret' = [op |-> "simular", args |-> <<ancho, puntos, doble>>,
                         raised |-> "ValueError",
                         msg |-> SimularError(ancho, MinPuntos),
                         warnings |-> <<>>, value |-> NoneObj]
              /\ guardado' = ContarFallo(guardado)
         ELSE /\ \E s \in {Simulacion(exp, ancho,
                                      IF puntos < MinPuntos THEN MinPuntos
                                      ELSE puntos, doble)} :
                   ret' = [op |-> "simular",
                           args |-> <<ancho, puntos, doble>>,
                           raised |-> "", msg |-> "", warnings |-> <<>>,
                           ref |-> Nuevo(guardado), locales |-> s.locales,
                           value |-> <<s.y, s.intensidad_normalizada>>]
              /\ guardado' = Contar(guardado)
    /\ UNCHANGED <<exp, construido, reasignados, otro, figura>>

\* exp.simular(ancho, puntos, doble)
Simular(ancho, puntos, doble) ==
    /\ ret = Libre
    /\ IF SimularError(ancho, puntos) # ""
         THEN /\ ret' = [op |-> "simular", args |-> <<ancho, puntos, doble>>,
                         raised |-> "ValueError",
                         msg |-> SimularError(ancho, puntos),
                         warnings |-> <<>>, value |-> NoneObj]
              /\ guardado' = ContarFallo(guardado)
         ELSE /\ \E s \in {Simulacion(exp, ancho, puntos, doble)} :
                   ret' = [op |-> "simular",
                           args |-> <<ancho, puntos, doble>>,
                           raised |-> "", msg |-> "", warnings |-> <<>>,
                           ref |-> Nuevo(guardado), locales |-> s.locales,
                           value |-> <<s.y, s.intensidad_normalizada>>]
              /\ guardado' = Contar(guardado)
    /\ UNCHANGED <<exp, construido, reasignados, otro, figura>>

NextCampos ==
    \/ \E y \in SecuenciasY : RendijaSimple(y)
    \/ \E y \in SecuenciasY : DobleRendija(y)
    \/ \E w \in AnchosPantalla, n \in Puntos, doble \in BOOLEAN :
          Simular(w, n, doble)
    \/ Return

\* The field functions called on the experiments the constructor builds.
SpecCampos == InitConstruido /\ [][NextCampos]_vars

-----------------------------------------------------------------------------
(* comparar_experimento_teoria *)

\* p <= q for two numbers <<high, low>> in base 10^8.
PairLe(p, q) == p[1] < q[1] \/ (p[1] = q[1] /\ p[2] <= q[2])

\* The integer square root of x = <<high, low>> (base 10^8), by bisection:
\* s = <<x, lo, hi>>, the root being in lo..hi.
IsqrtMedio(s) ==
    IF PairLe(MulExact(s[4], s[4]), s[1]) THEN <<s[1], s[4], s[3]>>
    ELSE <<s[1], s[2], s[4] - 1>>
IsqrtBisect(s) ==
    IF s[2] >= s[3] THEN s
    ELSE Eval1(IsqrtMedio, s \o <<(s[2] + s[3] + 1) \div 2>>)
Isqrt(s) == Rep64(IsqrtBisect, s)[2]

\* The root r of x rounded to the nearest integer: up when x > r^2 + r.
SqrtRound(x, r, e) ==
    IF PairLe(x, MulExact(r, r + 1)) THEN <<r, e>>
    ELSE Norm(r + 1, e)

\* sqrt(m * 10^e): the root of m * 10^8 (e even) or m * 10^7 (e odd), of
\* eight digits.
SqrtV(a) ==
    IF IsNaN(a) \/ a[1] < 0 THEN NaN
    ELSE IF IsInf(a) \/ a[1] = 0 THEN a
    ELSE IF a[2] % 2 = 0
      THEN Eval3(SqrtRound, <<a[1], 0>>,
                 Isqrt(<<<<a[1], 0>>, 31622776, 99999999>>), a[2] \div 2 - 4)
    ELSE Eval3(SqrtRound, <<a[1] \div 10, (a[1] % 10) * 10000000>>,
               Isqrt(<<<<a[1] \div 10, (a[1] % 10) * 10000000>>,
                       10000000, 31622777>>),
               (a[2] - 1) \div 2 - 3)

\* np.sqrt: the rounded root, nan for a negative argument.
FSqrt(a) == Eval1(SqrtV, a)

\* np.min of a non-empty array.
FMin(a) == FNeg(FMax([i \in DOMAIN a |-> FNeg(a[i])]))

\* The sum of the elements lo..hi of an array, by halves (numpy adds
\* pairwise).
RECURSIVE SumaRango(_, _, _)
SumaRango(a, lo, hi) ==
    IF lo = hi THEN a[lo]
    ELSE Eval2(AddV, SumaRango(a, lo, (lo + hi) \div 2),
                     SumaRango(a, (lo + hi) \div 2 + 1, hi))
SumaV(a) == IF Len(a) = 0 THEN Zero ELSE SumaRango(a, 1, Len(a))
Suma(a) == Eval1(SumaV, a)

\* np.mean
MediaV(a) == FDiv(Suma(a), IntToF(Len(a)))
Media(a) == Eval1(MediaV, a)

\* Element by element: a - b, a * b, a - c.
Restar(a, b)  == [i \in DOMAIN a |-> FSub(a[i], b[i])]
Multiplicar(a, b) == [i \in DOMAIN a |-> FMul(a[i], b[i])]
Centrar(a, c) == [i \in DOMAIN a |-> FSub(a[i], c)]

\* An entry of np.cov for two centred arrays: sum(dx * dy) / (n - 1).
Covarianza(dx, dy) ==
    FDiv(Suma(Multiplicar(dx, dy)), IntToF(Len(dx) - 1))

\* np.clip(c, -1, 1); nan stays nan.
Recortar(c) ==
    IF FLt(One, c) THEN One ELSE IF FLt(c, FNeg(One)) THEN FNeg(One) ELSE c

\* np.corrcoef(x, y)[0, 1]: the covariance divided by the two standard
\* deviations in turn, clipped to [-1, 1].
CorrcoefCentrado(dx, dy) ==
    Eval1(Recortar,
          FDiv(FDiv(Covarianza(dx, dy), FSqrt(Covarianza(dx, dx))),
               FSqrt(Covarianza(dy, dy))))
Corrcoef(x, y) ==
    Eval2(CorrcoefCentrado, Eval2(Centrar, x, Media(x)),
                            Eval2(Centrar, y, Media(y)))

\* The quality printed for a correlation (every test on nan is false).
Calidad(correlacion) ==
    IF FLt(F(9500, -4), correlacion) THEN "EXCELENTE"
    ELSE IF FLt(F(8500, -4), correlacion) THEN "MUY BUENO"
    ELSE IF FLt(F(7000, -4), correlacion) THEN "BUENO"
    ELSE "NECESITA MEJORA"

\* Mutant of AnchoExperimental: the largest position instead of the extent.
AnchoExperimentalMaximo(y_experimental) == FMax(y_experimental)

\* The arguments of the call of simular: the extent of the measured
\* positions, their number, double slit.
AnchoExperimental(y_experimental) ==
    FSub(FMax(y_experimental), FMin(y_experimental))

\* The statistics once simular has returned <<y_teoria, intensidad_teoria>>.
Estadisticas(intensidad_experimental, teoria) ==
    [y_teoria          |-> teoria.y,
     intensidad_teoria |-> teoria.intensidad_normalizada,
     mse |-> Media([i \in DOMAIN intensidad_experimental |->
                     Cuadrado(FSub(intensidad_experimental[i],
                                   teoria.intensidad_normalizada[i]))]),
     correlacion |-> Corrcoef(intensidad_experimental,
                              teoria.intensidad_normalizada),
     residuos |-> Restar(intensidad_experimental,
                         teoria.intensidad_normalizada)]

\* comparar_experimento_teoria after simular has accepted its arguments.
Comparacion(self, y_experimental, intensidad_experimental) ==
    Eval2(Estadisticas, intensidad_experimental,
          Simulacion(self, AnchoExperimental(y_experimental),
                     Len(y_experimental), TRUE))

\* What the call has done when plt.show() is reached: the figure is saved,
\* and the path printed, only when a path is given; it is always shown.
EfectosFigura(guardar) ==
    (IF guardar # "" THEN <<<<"savefig", guardar>>>> ELSE <<>>)
        \o <<<<"show">>>>

\* What the call has done when it returns: the statistics are printed once
\* the figure has been closed.
Efectos(guardar, correlacion) ==
    EfectosFigura(guardar) \o <<<<"print", Calidad(correlacion)>>>>

\* comparar_experimento_teoria(y_experimental, intensidad_experimental,
\*                             exp, guardar) up to plt.show(): simular
\* raises, or the statistics are computed, the figure is drawn and saved,
\* and the call waits in plt.show() until the figure is closed.
CompararExperimentoTeoria(y_experimental, intensidad_experimental, guardar) ==
    /\ ret = Libre
    /\ figura = Libre
    /\ \E err \in {SimularError(AnchoExperimental(y_experimental),
                                Len(y_experimental))} :
         IF err # ""
           THEN /\ ret' = [op |-> "comparar_experimento_teoria",
                           args |-> <<y_experimental, intensidad_experimental,
                                      guardar>>,
                           raised |-> "ValueError", msg |-> err,
                           warnings |-> <<>>, efectos |-> <<>>,
                           value |-> NoneObj]
                /\ figura' = figura
           ELSE \E c \in {Comparacion(exp, y_experimental,
                                      intensidad_experimental)} :
                  /\ figura' = [op |-> "comparar_experimento_teoria",
                                args |-> <<y_experimental,
                                           intensidad_experimental, guardar>>,
                                efectos |-> EfectosFigura(guardar),
                                locales |-> c]
                  /\ ret' = ret
    /\ guardado' = Contar(guardado)
    /\ UNCHANGED <<exp, construido, reasignados, otro>>

\* plt.show() returns, the figure having been closed: the call prints the
\* statistics it computed before the figure was shown and returns them.
CerrarFigura ==
    /\ ret = Libre
    /\ figura # Libre
    /\ ret' = [op |-> figura.op, args |-> figura.args,
               raised |-> "", msg |-> "", warnings |-> <<>>,
               efectos |-> Efectos(figura.args[3], figura.locales.correlacion),
               locales |-> [y_teoria |-> figura.locales.y_teoria,
                            intensidad_teoria |->
                                figura.locales.intensidad_teoria],
               value |-> [mse |-> figura.locales.mse,
                          correlacion |-> figura.locales.correlacion,
                          residuos |-> figura.locales.residuos]]
    /\ figura' = Libre
    /\ UNCHANGED <<exp, construido, reasignados, guardado, otro>>

\* Measured positions, in metres: 100 uniform positions centred on the
\* axis (-5 mm .. 5 mm), 100 uniform positions on one side of it (0 ..
\* 1 cm), the centred ones with the second moved (not uniform), three
\* positions, three equal positions, and 100 equal positions.
PosicionesCentradas == Linspace(F(-5000, -6), F(5000, -6), MinPuntos)
PosicionesMedidas ==
    {PosicionesCentradas,
     Linspace(Zero, F(1000, -5), MinPuntos),
     [PosicionesCentradas EXCEPT ![2] = F(-4500, -6)],
     <<F(-1000, -6), Zero, F(1000, -6)>>,
     <<F(1000, -6), F(1000, -6), F(1000, -6)>>,
     [i \in 1..MinPuntos |-> F(1000, -6)]}

\* The intensity an ideal experiment measures at the positions y: the
\* double-slit field there, normalised to its maximum.
IntensidadMedida(self, y) ==
    CHOOSE r \in {NormalizarV(v) : v \in
                    {ValoresV(l) : l \in {DobleRendijaLocales(self, y)}}} : TRUE

\* The paths given for the figure: none ("" stands for None and for the
\* empty string, which "if guardar" treats alike), or a file name.
Rutas == {"", "comparacion.png"}

\* The attribute a callback of the figure reassigns while it is shown.
AtributosCallback == {"separacion"}

NextComparar ==
    \/ /\ ret = Libre
       /\ figura = Libre
       /\ \E y \in PosicionesMedidas :
             \E i \in {IntensidadMedida(exp, y)} :
                 \E guardar \in Rutas :
                     CompararExperimentoTeoria(y, i, guardar)
    \/ /\ figura # Libre
       /\ \E a \in AtributosCallback :
             \E v \in ValoresNuevos(a) : SetAttr(a, v)
    \/ CerrarFigura
    \/ Return

\* Measurements compared with the theory of the experiments the
\* constructor builds.
SpecComparar == InitConstruido /\ [][NextComparar]_vars

-----------------------------------------------------------------------------
(* A caller that holds on to a result while it makes further queries *)

\* The experiments of this caller: the default one (632 nm, 50 um, 200 um,
\* 1 m) and one with slits of 100 um, 400 um apart, 1.5 m from the screen.
ExperimentosConsulta ==
    {ExperimentoNew(F(6320, -10), F(5000, -8), F(2000, -7), F(1000, -3)),
     ExperimentoNew(F(6320, -10), F(1000, -7), F(4000, -7), F(1500, -3))}

\* The arguments of its queries: a screen of 1 cm, the centre and 1 mm.
AnchosConsulta == {F(1000, -5)}
SecuenciasConsulta == {<<Zero>>, <<F(1000, -6)>>}

InitConsultas ==
    /\ exp \in ExperimentosConsulta
    /\ construido = exp
    /\ ret = Libre
    /\ reasignados = {}
    /\ guardado = SinGuardar
    /\ otro = SinOtro
    /\ figura = Libre

\* r = exp.simular(...) or r = exp.calcular_posiciones_franjas(...): the
\* caller binds the result to a name and goes on.
Guardar ==
    /\ ret.op \in {"simular", "calcular_posiciones_franjas"}
    /\ ret.raised = ""
    /\ guardado = SinGuardar
    /\ guardado' = [llamada |-> ret, entre |-> 0, mutado |-> {},
                    fallo |-> FALSE]
    /\ UNCHANGED <<exp, ret, construido, reasignados, otro, figura>>

\* The parts of a ResultadosAnalisis that are mutable objects, and what
\* the caller writes: r.posiciones_maximos[0] = 9999.0,
\* r.posiciones_minimos[0] = 9999.0, r.parametros['separacion_um'] = 0.0.
PartesMutables == {"posiciones_maximos", "posiciones_minimos", "parametros"}
Escribir(valor, parte) ==
    IF parte = "parametros"
      THEN [valor EXCEPT !.parametros.separacion_um = Zero]
      ELSE [valor EXCEPT ![parte][1] = F(9999, 0)]

\* The caller writes into a part of the result it holds.  The object is
\* the one the call created: the write shows wherever that object is
\* referred to (in ret, while it still is the outcome of that call) and
\* nowhere else.
MutarResultado(parte) ==
    /\ guardado.llamada.op = "calcular_posiciones_franjas"
    /\ parte \notin guardado.mutado
    /\ guardado' = [guardado EXCEPT
                       !.llamada.value = Escribir(@, parte),
                       !.mutado = @ \cup {parte}]
    /\ ret' = IF ret.op = "calcular_posiciones_franjas"
                   /\ ret.ref = guardado.llamada.ref
                THEN [ret EXCEPT !.value = Escribir(@, parte)]
                ELSE ret
    /\ UNCHANGED <<exp, construido, reasignados, otro, figura>>

\* The orders this caller asks for.
OrdenesConsulta == {1, 2}

NextConsultas ==
    \/ \E w \in AnchosConsulta, n \in MinPuntos..MaxPuntos, doble \in BOOLEAN :
          Simular(w, n, doble)
    \/ \E y \in SecuenciasConsulta : RendijaSimple(y)
    \/ \E y \in SecuenciasConsulta : DobleRendija(y)
    \/ \E n \in OrdenesConsulta : CalcularPosicionesFranjas(n)
    \/ Guardar
    \/ \E parte \in PartesMutables : MutarResultado(parte)
    \/ Return

SpecConsultas == InitConsultas /\ [][NextConsultas]_vars

-----------------------------------------------------------------------------
(* A caller whose calls are sometimes rejected *)

\* Arguments of simular: the width 0 and the default 1 cm; one point too
\* few and the fewest accepted.
AnchosFallos == {Zero, F(1000, -5)}
PuntosFallos == {MinPuntos - 1, MinPuntos}

\* The orders asked for: 0, which the spec calls invalid, and two valid.
OrdenesFallos == {0} \cup OrdenesConsulta

NextFallos ==
    \/ \E w \in AnchosFallos, n \in PuntosFallos : Simular(w, n, TRUE)
    \/ \E y \in SecuenciasConsulta : RendijaSimple(y)
    \/ \E y \in SecuenciasConsulta : DobleRendija(y)
    \/ \E n \in OrdenesFallos : CalcularPosicionesFranjas(n)
    \/ Guardar
    \/ Return

SpecFallos == InitConsultas /\ [][NextFallos]_vars

-----------------------------------------------------------------------------
(* A caller with two experiments *)

\* The arguments the two experiments are built with: for each a value the
\* constructor rejects; a separation equal to the width and one above it.
AnchosDos       == {Zero, F(5000, -8)}
SeparacionesDos == {Zero, F(5000, -8), F(2000, -7)}
DistanciasDos   == {Zero, F(1000, -3)}

\* The experiment the caller's i-th name is bound to.
Instancia(i) == IF i = 1 THEN exp ELSE otro.exp

\* e_i = ExperimentoDobleRendija(longitud_onda, ancho_rendija, separacion,
\*                               distancia_pantalla)
\* The Onda object of line 142 is created and its attributes are written;
\* the object the name was bound to before is released.
NewExperimentoEn(i, longitud_onda, ancho_rendija, separacion, distancia_pantalla) ==
    LET args == <<longitud_onda, ancho_rendija, separacion, distancia_pantalla>>
        err  == InitError(longitud_onda, ancho_rendija, separacion,
                          distancia_pantalla)
    IN  /\ ret = Libre
        /\ IF err # ""
             THEN /\ ret' = [op |-> "ExperimentoDobleRendija",
                             instancia |-> i, args |-> args,
                             raised |-> "ValueError", msg |-> err,
                             warnings |-> InitWarnings(longitud_onda,
                                 ancho_rendija, separacion, distancia_pantalla),
                             value |-> NoneObj]
                  /\ UNCHANGED <<exp, construido, reasignados, guardado, otro, figura>>
             ELSE \E self \in {ExperimentoNew(longitud_onda, ancho_rendija,
                                              separacion, distancia_pantalla)} :
                  LET id   == NuevaOnda(otro)
                      onda_de  == [otro.onda_de EXCEPT ![i] = id]
                      escritas == [otro.ondas EXCEPT ![id] = self.onda]
                      ondas    == [n \in 1..MaxOndas |->
                                      IF n \in {onda_de[1], onda_de[2]}
                                        THEN escritas[n]
                                      ELSE NoneObj]
                  IN
                  /\ ret' = [op |-> "ExperimentoDobleRendija",
                             instancia |-> i, args |-> args,
                             raised |-> "", msg |-> "",
                             warnings |-> InitWarnings(longitud_onda,
                                 ancho_rendija, separacion, distancia_pantalla),
                             value |-> self]
                  /\ exp' = IF i = 1 THEN self
                            ELSE Ver(exp, onda_de[1], ondas)
                  /\ otro' = [exp     |-> IF i = 2 THEN self
                                          ELSE Ver(otro.exp, onda_de[2], ondas),
                              onda_de |-> onda_de,
                              ondas   |-> ondas]
                  /\ construido' = IF i = 1 THEN self ELSE construido
                  /\ UNCHANGED <<reasignados, guardado, figura>>

\* e_i.calcular_posiciones_franjas(n_max)
CalcularPosicionesFranjasEn(i, n_max) ==
    /\ ret = Libre
    /\ Instancia(i) # NoneObj
    /\ ret' = [op |-> "calcular_posiciones_franjas", instancia |-> i,
               args |-> <<n_max>>, raised |-> "", warnings |-> <<>>,
               value |-> PosicionesFranjas(Instancia(i), n_max)]
    /\ UNCHANGED <<exp, construido, reasignados, guardado, otro, figura>>

\* e_i.doble_rendija(y)
DobleRendijaEn(i, y) ==
    /\ ret = Libre
    /\ Instancia(i) # NoneObj
    /\ \E locales \in {DobleRendijaLocales(Instancia(i), y)} :
          ret' = [op |-> "doble_rendija", instancia |-> i, args |-> <<y>>,
                  raised |-> "", warnings |-> <<>>, locales |-> locales,
                  value |-> Valores(locales)]
    /\ UNCHANGED <<exp, construido, reasignados, guardado, otro, figura>>

NextDos ==
    \/ \E i \in 1..2, l \in LongitudesOnda, a \in AnchosDos,
          d \in SeparacionesDos, L \in DistanciasDos :
          NewExperimentoEn(i, l, a, d, L)
    \/ \E i \in 1..2, n \in OrdenesConsulta : CalcularPosicionesFranjasEn(i, n)
    \/ \E i \in 1..2, y \in SecuenciasConsulta : DobleRendijaEn(i, y)
    \/ Return

SpecDos == Init /\ [][NextDos]_vars

-----------------------------------------------------------------------------
(* The complex-number library src/Proyecto/libreria_complejos.py *)

\* A complex number is a pair (re, im); Python's integers and floats are
\* values of the format (the integers used are exact in it).

\* The smallest positive float is 5e-324: a non-zero result below half of
\* it is rounded to 0.
MinSubnormal == F(2470, -327)
Rango(v) ==
    IF IsFinite(v) /\ v # Zero /\ FLe(FAbs(v), MinSubnormal) THEN Zero ELSE v

\* x * y and x / y of Python floats, with underflow.
Mul(x, y) == Rango(FMul(x, y))
Div(x, y) == Rango(FDiv(x, y))

\* Mutant of producto: the sign of the second product of the real part
\* changed.
productoSuma(c1, c2) ==
    <<FAdd(Mul(c1[1], c2[1]), Mul(c1[2], c2[2])),
      FAdd(Mul(c1[1], c2[2]), Mul(c1[2], c2[1]))>>

\* producto(c1, c2)
producto(c1, c2) ==
    <<FSub(Mul(c1[1], c2[1]), Mul(c1[2], c2[2])),
      FAdd(Mul(c1[1], c2[2]), Mul(c1[2], c2[1]))>>

\* division(c1, c2): denom, the test that raises ValueError, and the pair
\* returned otherwise.
denom(c2) == FAdd(Mul(c2[1], c2[1]), Mul(c2[2], c2[2]))
divisionRaises(c2) == denom(c2) = Zero
division(c1, c2) ==
    <<Div(FAdd(Mul(c1[1], c2[1]), Mul(c1[2], c2[2])), denom(c2)),
      Div(FSub(Mul(c1[2], c2[1]), Mul(c1[1], c2[2])), denom(c2))>>

\* conjugado(c)
conjugado(c) == <<c[1], FNeg(c[2])>>

\* Components of the arguments: small integers and the float 1e-200.
Componentes == {IntToF(-1), Zero, One, IntToF(2), IntToF(3), F(1000, -203)}
Complejos == Componentes \X Componentes

\* producto(c1, c2) called
Producto(c1, c2) ==
    /\ ret = Libre
    /\ ret' = [op |-> "producto", args |-> <<c1, c2>>, raised |-> "",
               warnings |-> <<>>, value |-> producto(c1, c2)]
    /\ UNCHANGED <<exp, construido, reasignados, guardado, otro, figura>>

\* division(c1, c2) called
Division(c1, c2) ==
    /\ ret = Libre
    /\ IF divisionRaises(c2)
         THEN ret' = [op |-> "division", args |-> <<c1, c2>>,
                      raised |-> "ValueError",
                      msg |-> "Division by zero is not allowed.",
                      warnings |-> <<>>, value |-> NoneObj]
         ELSE ret' = [op |-> "division", args |-> <<c1, c2>>, raised |-> "",
                      warnings |-> <<>>, value |-> division(c1, c2)]
    /\ UNCHANGED <<exp, construido, reasignados, guardado, otro, figura>>

\* conjugado(c) called
Conjugado(c) ==
    /\ ret = Libre
    /\ ret' = [op |-> "conjugado", args |-> <<c>>, raised |-> "",
               warnings |-> <<>>, value |-> conjugado(c)]
    /\ UNCHANGED <<exp, construido, reasignados, guardado, otro, figura>>

NextComplejos ==
    \/ \E c1 \in Complejos, c2 \in Complejos : Producto(c1, c2)
    \/ \E c1 \in Complejos, c2 \in Complejos : Division(c1, c2)
    \/ \E c \in Complejos : Conjugado(c)
    \/ Return

SpecComplejos == Init /\ [][NextComplejos]_vars

-----------------------------------------------------------------------------
(* Properties *)

\* Two finite values of the format agree within a relative 1e-6, which
\* covers the rounding of a few eight-digit operations.
Cerca(P, Q) == FLe(FAbs(FSub(P, Q)), FMul(FAbs(Q), F(1, -6)))

\* The product of two values of the format.
Prod(a, b) == FMul(a, b)

RetExperimento == ret.op = "ExperimentoDobleRendija"

\* C1: a construction of an experiment raises ValueError exactly when one
\* of its four arguments is <= 0; then no object is returned and the
\* caller's experiment stays what it was; otherwise it returns the new
\* experiment, which holds the four arguments.
C1_ConstruccionValida ==
    [][(ret = Libre /\ ret'.op = "ExperimentoDobleRendija") =>
          LET nopos == \E i \in 1..4 : ret'.args[i][1] <= 0
          IN  /\ (ret'.raised = "ValueError") <=> nopos
              /\ nopos => (ret'.value = NoneObj /\ exp' = exp)
              /\ ~nopos =>
                    /\ ret'.raised = ""
                    /\ ret'.value.tipo = "ExperimentoDobleRendija"
                    /\ exp' = ret'.value
                    /\ exp'.onda.longitud_onda = ret'.args[1]
                    /\ exp'.ancho_rendija = ret'.args[2]
                    /\ exp'.separacion = ret'.args[3]
                    /\ exp'.distancia_pantalla = ret'.args[4]]_vars

\* C1 witness: a construction with only the screen distance zero was
\* rejected while an earlier experiment exists.
C1_Witness ==
    /\ RetExperimento
    /\ ret.raised = "ValueError"
    /\ ret.args[4] = Zero
    /\ \A i \in 1..3 : ret.args[i][1] > 0
    /\ exp # NoneObj

\* C2: Onda(longitud_onda) raises ValueError exactly when longitud_onda <= 0
\* and otherwise returns an Onda holding it; every Onda there is, the one
\* returned and the one inside the experiment, has longitud_onda > 0.
C2_OndaPositiva ==
    /\ ret.op = "Onda" =>
          /\ (ret.raised = "ValueError") <=> ret.args[1][1] <= 0
          /\ ret.raised = "ValueError" => ret.value = NoneObj
          /\ ret.raised = "" =>
                /\ ret.value.tipo = "Onda"
                /\ ret.value.longitud_onda = ret.args[1]
                /\ ret.value.longitud_onda[1] > 0
    /\ exp # NoneObj => exp.onda.longitud_onda[1] > 0

\* C2 witness: Onda(0) was rejected.
C2_Witness ==
    /\ ret.op = "Onda"
    /\ ret.raised = "ValueError"
    /\ ret.args[1] = Zero

\* C3: after a successful construction the experiment stores
\* separacion_angular = lambda/d, separacion_franjas = lambda*L/d and
\* ancho_central_difraccion = 2*lambda*L/a (up to rounding); with the
\* default arguments separacion_franjas is 3.16e-3.
C3_ConstantesDerivadas ==
    (RetExperimento /\ ret.raised = "") =>
        LET l == ret.args[1]
            a == ret.args[2]
            d == ret.args[3]
            L == ret.args[4]
        IN  /\ Cerca(Prod(exp.separacion_angular, d), l)
            /\ Cerca(Prod(exp.separacion_franjas, d), Prod(l, L))
            /\ Cerca(Prod(exp.ancho_central_difraccion, a),
                     Prod(Two, Prod(l, L)))
            /\ ret.args = <<F(6320, -10), F(5000, -8), F(2000, -7), F(1000, -3)>>
                  => exp.separacion_franjas = F(3160, -6)

\* C3 witness: the experiment with the default arguments was built.
C3_Witness ==
    /\ RetExperimento
    /\ ret.raised = ""
    /\ ret.args = <<F(6320, -10), F(5000, -8), F(2000, -7), F(1000, -3)>>
    /\ exp.ancho_central_difraccion = F(2528, -5)

\* The derived constants are those the formulas give for the parameters
\* the experiment stores now.
Consistentes(self) ==
    /\ Cerca(Prod(self.separacion_angular, self.separacion),
             self.onda.longitud_onda)
    /\ Cerca(Prod(self.separacion_franjas, self.separacion),
             Prod(self.onda.longitud_onda, self.distancia_pantalla))
    /\ Cerca(Prod(self.ancho_central_difraccion, self.ancho_rendija),
             Prod(Two, Prod(self.onda.longitud_onda, self.distancia_pantalla)))

\* C4: the stored parameters and the derived constants are frozen after
\* the construction: whatever the caller did since (reassigning an
\* attribute, calling _calcular_parametros_teoricos), every attribute of
\* the experiment has its value of construction, a query returns the
\* derived constants of construction, and separacion_franjas = lambda*L/d
\* (with the other two formulas) holds of the stored lambda, L, d and a.
C4_Congelados ==
    exp # NoneObj =>
        /\ \A at \in Atributos : exp[at] = construido[at]
        /\ Consistentes(exp)
        /\ (ret.op = "calcular_posiciones_franjas" =>
               /\ ret.value.separacion_franjas = construido.separacion_franjas
               /\ ret.value.ancho_central =
                      construido.ancho_central_difraccion)

-----------------------------------------------------------------------------
(* Properties of the intensity fields *)

\* Order of two finite values a, b >= 0 of the format, read off their
\* exponents and mantissas.
MenorIgual(a, b) ==
    \/ a[1] = 0
    \/ b[1] > 0 /\ (a[2] < b[2] \/ (a[2] = b[2] /\ a[1] <= b[1]))

\* A finite value of [0, 1].
EnUnidad(v) == IsFinite(v) /\ v[1] >= 0 /\ MenorIgual(v, One)

\* |b| < 1e-12 for a finite b.
Pequeno(b) == b[1] = 0 \/ b[2] <= -20

RetDirecto   == ret.op \in {"rendija_simple", "doble_rendija"}
RetSimulado  == ret.op = "simular" /\ ret.raised = ""
RetConCampo  == RetDirecto \/ RetSimulado

\* C5 as stated: a direct call of rendija_simple or doble_rendija returns a
\* sequence of the length of y, with values in [0,1], whose largest element
\* is exactly 1.0 whatever the positions are.
C5_NormalizadoPorMaximo ==
    RetDirecto =>
        /\ Len(ret.value) = Len(ret.args[1])
        /\ \A i \in DOMAIN ret.value : EnUnidad(ret.value[i])
        /\ \E i \in DOMAIN ret.value : ret.value[i] = One

\* C5 amended: a direct call returns a sequence of the length of y with
\* values in [0,1]; each value is the intensity relative to the centre,
\* the one the function returns for that position alone (nothing is divided
\* by the maximum of the sequence); the value is 1.0 at y = 0, so the
\* largest element is 1.0 when y contains the centre.
C5_RelativoAlCentro ==
    RetDirecto =>
        /\ Len(ret.value) = Len(ret.args[1])
        /\ \A i \in DOMAIN ret.value :
              /\ EnUnidad(ret.value[i])
              /\ ret.value[i] =
                    IF ret.op = "rendija_simple"
                      THEN Valores(RendijaSimpleLocales(exp, <<ret.args[1][i]>>))[1]
                      ELSE Valores(DobleRendijaLocales(exp, <<ret.args[1][i]>>))[1]
              /\ ret.args[1][i] = Zero =>
                    /\ ret.value[i] = One
                    /\ \A j \in DOMAIN ret.value :
                          MenorIgual(ret.value[j], ret.value[i])

\* C5 witness: a direct call on two positions off the centre whose largest
\* value is below 1.0.
C5_Witness ==
    /\ RetDirecto
    /\ Len(ret.args[1]) = 2
    /\ \A i \in DOMAIN ret.value :
          ret.args[1][i] # Zero /\ ret.value[i] # One /\ ret.value[i][1] > 0

\* C6: an accepted simular returns the field of the selected mode divided
\* by the maximum of that same field (in double mode the product, not the
\* envelope): the values are in [0,1], the largest is exactly 1.0 and sits
\* where the field is largest, and value * maximum is the field.
C6_NormalizadoEnSimular ==
    RetSimulado =>
        LET y     == ret.value[1]
            norm  == ret.value[2]
            campo == [i \in DOMAIN ret.locales |-> ret.locales[i].valor]
        IN  /\ Len(norm) = Len(y)
            /\ \A i \in DOMAIN norm : EnUnidad(norm[i])
            /\ \E i \in DOMAIN norm :
                  /\ norm[i] = One
                  /\ \A j \in DOMAIN campo : MenorIgual(campo[j], campo[i])
                  /\ \A j \in DOMAIN norm :
                        IF campo[j][1] = 0 THEN norm[j][1] = 0
                        ELSE Cerca(Prod(norm[j], campo[i]), campo[j])

\* C6 witness: a double-slit simulation whose field has no sample equal to
\* 1.0 (an even number of points straddles the centre) and whose envelope
\* is larger than the field at the sample returned as 1.0.
C6_Witness ==
    /\ RetSimulado
    /\ ret.args[3]
    /\ \A i \in DOMAIN ret.locales : ret.locales[i].valor # One
    /\ \E i \in DOMAIN ret.locales :
          /\ ret.value[2][i] = One
          /\ ret.locales[i].envolvente # ret.locales[i].valor

\* C7: in both intensity functions every beta with |beta| < 1e-12 is
\* replaced by +1e-12 and every other beta is used as it is; the divisor
\* is never zero and every value returned is finite.
C7_GuardaBeta ==
    RetConCampo =>
        \A i \in DOMAIN ret.locales :
            LET l == ret.locales[i]
            IN  /\ IsFinite(l.beta)
                /\ Pequeno(l.beta) => l.beta_seguro = F(1000, -15)
                /\ ~Pequeno(l.beta) => l.beta_seguro = l.beta
                /\ l.beta_seguro[1] # 0
                /\ IsFinite(l.valor)
                /\ ret.op = "simular" => IsFinite(ret.value[2][i])

\* C7 witness: a call with a zero beta, a tiny negative beta and a
\* negative beta that is not tiny.
C7_Witness ==
    /\ RetDirecto
    /\ \E i, j \in DOMAIN ret.locales :
          /\ ret.locales[i].beta[1] < 0
          /\ ret.locales[i].beta_seguro = Umbral
          /\ ret.locales[j].beta[1] < 0
          /\ ret.locales[j].beta_seguro = ret.locales[j].beta

\* C8: when the positions contain y = 0, the single-slit intensity there
\* is 1.0 and no other sample of the output is larger.
C8_CentroMaximo ==
    /\ ret.op = "rendija_simple" =>
          \A i \in DOMAIN ret.value :
              ret.args[1][i] = Zero =>
                  /\ ret.value[i] = One
                  /\ \A j \in DOMAIN ret.value :
                        MenorIgual(ret.value[j], ret.value[i])
    /\ (RetSimulado /\ ~ret.args[3]) =>
          \A i \in DOMAIN ret.value[1] :
              ret.value[1][i] = Zero =>
                  /\ ret.value[2][i] = One
                  /\ ret.locales[i].valor = One
                  /\ \A j \in DOMAIN ret.locales :
                        MenorIgual(ret.locales[j].valor, ret.locales[i].valor)

\* C8 witness: a single-slit call on the centre and a position of smaller
\* intensity.
C8_Witness ==
    /\ ret.op = "rendija_simple"
    /\ \E i, j \in DOMAIN ret.value :
          /\ ret.args[1][i] = Zero
          /\ ret.value[i] = One
          /\ ret.value[j] # One

\* C9: at every position the value of doble_rendija, envelope * cos^2, is
\* at most the envelope, which is the value of rendija_simple at the same
\* position, and both are >= 0.
C9_BajoLaEnvolvente ==
    (ret.op = "doble_rendija" \/ (RetSimulado /\ ret.args[3])) =>
        \A i \in DOMAIN ret.locales :
            LET l == ret.locales[i]
                y == IF ret.op = "simular" THEN ret.value[1] ELSE ret.args[1]
            IN  /\ IsFinite(l.valor) /\ IsFinite(l.envolvente)
                /\ l.valor[1] >= 0
                /\ l.envolvente[1] >= 0
                /\ MenorIgual(l.valor, l.envolvente)
                /\ l.envolvente =
                      Valores(RendijaSimpleLocales(exp, <<y[i]>>))[1]

\* C9 witness: a double-slit call with a value strictly between 0 and its
\* envelope.
C9_Witness ==
    /\ ret.op = "doble_rendija"
    /\ \E i \in DOMAIN ret.locales :
          /\ ret.locales[i].valor[1] > 0
          /\ ret.locales[i].valor # ret.locales[i].envolvente

\* C10: simular raises ValueError exactly when ancho <= 0 or puntos < 100,
\* in either mode, and then returns nothing; otherwise (100 points
\* included) it returns the positions and the intensity, puntos of each.
C10_ValidacionSimular ==
    ret.op = "simular" =>
        LET ancho  == ret.args[1]
            puntos == ret.args[2]
        IN  /\ (ret.raised = "ValueError") <=> (ancho[1] <= 0 \/ puntos < 100)
            /\ ret.raised \in {"", "ValueError"}
            /\ ret.raised = "ValueError" => ret.value = NoneObj
            /\ ret.raised = "" =>
                  Len(ret.value[1]) = puntos /\ Len(ret.value[2]) = puntos

\* C10 witness: 100 points on a screen of positive width, accepted.
C10_Witness ==
    /\ ret.op = "simular"
    /\ ret.args[2] = 100
    /\ ret.args[1][1] > 0
    /\ ret.raised = ""
    /\ Len(ret.value[1]) = 100

\* One unit in the last place of a value v # 0 of the format.
UnidadFinal(v) == F(1, v[2])

\* C11: an accepted simular returns puntos positions, strictly ascending
\* and uniformly spaced (within two units in the last place of the end
\* positions), from -ancho/2 to +ancho/2, and as many intensities, the
\* field of the selected mode evaluated at exactly those positions.
C11_PosicionesUniformes ==
    RetSimulado =>
        LET ancho  == ret.args[1]
            puntos == ret.args[2]
            y      == ret.value[1]
            pasos  == IntToF(puntos - 1)
            ulp    == UnidadFinal(y[puntos])
        IN  /\ Len(y) = puntos
            /\ Len(ret.value[2]) = puntos
            /\ y[1] = FNeg(FDiv(ancho, Two))
            /\ y[puntos] = FDiv(ancho, Two)
            /\ \A i \in 1..(puntos - 1) :
                  /\ FLt(y[i], y[i + 1])
                  /\ FLe(FAbs(FSub(FMul(FSub(y[i + 1], y[i]), pasos), ancho)),
                         FMul(FMul(Two, pasos), ulp))
            /\ ret.locales = IF ret.args[3]
                               THEN DobleRendijaLocales(exp, y)
                               ELSE RendijaSimpleLocales(exp, y)
            /\ \A i \in 1..puntos :
                  ("delta" \in DOMAIN ret.locales[i]) <=> ret.args[3]

\* C11 witness: an accepted single-slit simulation of 100 points, whose
\* positions straddle the centre.
C11_Witness ==
    /\ RetSimulado
    /\ ~ret.args[3]
    /\ Len(ret.value[1]) = 100
    /\ ret.value[1][50][1] < 0
    /\ ret.value[1][51][1] > 0

\* C12: a simular call with the arguments of an earlier simular call on
\* the same experiment returns the positions and intensities the earlier
\* call returned, whatever queries were made between the two.
C12_SimularDeterminista ==
    (RetSimulado /\ guardado.llamada.op = "simular"
                 /\ guardado.llamada.args = ret.args) =>
        /\ ret.value = guardado.llamada.value
        /\ exp = construido

\* C12 witness: the second of two simular calls with the same arguments,
\* with at least one other query between them.
C12_Witness ==
    /\ RetSimulado
    /\ guardado.llamada.op = "simular"
    /\ guardado.llamada.args = ret.args
    /\ guardado.entre >= 2
    /\ Len(ret.value[2]) = ret.args[2]

-----------------------------------------------------------------------------
(* Properties of the fringe positions *)

RetFranjas == ret.op = "calcular_posiciones_franjas" /\ ret.raised = ""

\* A value v of the format is j * P (j an integer, P > 0 of the format)
\* within the rounding of the format.
EsMultiplo(v, j, P) ==
    IF j = 0 THEN v = Zero
    ELSE /\ IsFinite(v)
         /\ (v[1] < 0) <=> (j < 0)
         /\ v[1] # 0
         /\ Cerca(FMul(IntToF(Abs(j)), P), FAbs(v))

\* C13: for n_max >= 1, calcular_posiciones_franjas returns 2 n_max + 1
\* maxima, the k-th being (k - n_max) * separacion_franjas (the middle one
\* is 0), and 2 n_max minima, the k-th being (k - n_max + 0.5) *
\* separacion_franjas; 11 and 10 of them for n_max = 5.
C13_PosicionesFranjas ==
    (RetFranjas /\ ret.args[1] >= 1) =>
        LET n_max   == ret.args[1]
            maximos == ret.value.posiciones_maximos
            minimos == ret.value.posiciones_minimos
            s       == exp.separacion_franjas
        IN  /\ Len(maximos) = 2 * n_max + 1
            /\ Len(minimos) = 2 * n_max
            /\ maximos[n_max + 1] = Zero
            /\ \A k \in 0..(2 * n_max) :
                  EsMultiplo(maximos[k + 1], k - n_max, s)
            /\ \A k \in 0..(2 * n_max - 1) :
                  EsMultiplo(minimos[k + 1], 2 * (k - n_max) + 1,
                             FMul(Half, s))

\* C13 witness: the query for n_max = 5, with 11 maxima and 10 minima.
C13_Witness ==
    /\ RetFranjas
    /\ ret.args[1] = 5
    /\ Len(ret.value.posiciones_maximos) = 11
    /\ Len(ret.value.posiciones_minimos) = 10
    /\ ret.value.posiciones_maximos[6] = Zero

\* The sequence a read backwards with every element negated.
Reflejo(a) == [i \in DOMAIN a |-> FNeg(a[Len(a) + 1 - i])]

\* C14: for n_max >= 1 the maxima and the minima are each symmetric about
\* zero: the negation of every position of a sequence is in that sequence
\* (at the mirrored index).
C14_Simetria ==
    (RetFranjas /\ ret.args[1] >= 1) =>
        LET maximos == ret.value.posiciones_maximos
            minimos == ret.value.posiciones_minimos
        IN  /\ \A i \in DOMAIN maximos :
                  \E j \in DOMAIN maximos : maximos[j] = FNeg(maximos[i])
            /\ \A i \in DOMAIN minimos :
                  \E j \in DOMAIN minimos : minimos[j] = FNeg(minimos[i])
            /\ Reflejo(maximos) = maximos
            /\ Reflejo(minimos) = minimos

\* C14 witness: a query for n_max >= 2 whose minima are all non-zero and
\* pairwise different.
C14_Witness ==
    /\ RetFranjas
    /\ ret.args[1] >= 2
    /\ \A i \in DOMAIN ret.value.posiciones_minimos :
          /\ ret.value.posiciones_minimos[i][1] # 0
          /\ \A j \in DOMAIN ret.value.posiciones_minimos :
                i # j => ret.value.posiciones_minimos[i]
                            # ret.value.posiciones_minimos[j]

\* C15: calcular_posiciones_franjas raises ValueError when n_max < 1 (zero
\* and negative values) and returns no ResultadosAnalisis.
C15_OrdenValidado ==
    (ret.op = "calcular_posiciones_franjas" /\ ret.args[1] < 1) =>
        /\ ret.raised = "ValueError"
        /\ ret.value = NoneObj

-----------------------------------------------------------------------------
(* Properties of the comparison *)

\* C16: the comparison evaluates the theory at exactly the measured
\* positions: the positions of the theoretical intensity used for the
\* residuals equal y_experimental element by element, also when it is not
\* centred on zero or not uniformly spaced.
C16_MismasPosiciones ==
    (ret.op = "comparar_experimento_teoria" /\ ret.raised = "") =>
        ret.locales.y_teoria = ret.args[1]

-----------------------------------------------------------------------------
(* Order of the fringe positions *)

\* a < b for two finite values of the format, read off their signs,
\* exponents and mantissas.
MenorEstricto(a, b) ==
    IF a[1] < 0 /\ b[1] >= 0 THEN TRUE
    ELSE IF a[1] >= 0 /\ b[1] < 0 THEN FALSE
    ELSE IF a[1] < 0 THEN FAbs(a) # FAbs(b) /\ MenorIgual(FAbs(b), FAbs(a))
    ELSE a # b /\ MenorIgual(a, b)

\* C17: for n_max >= 1 the maxima and the minima are each in strictly
\* ascending order: every element is greater than the one before it.
C17_OrdenAscendente ==
    (RetFranjas /\ ret.args[1] >= 1) =>
        LET maximos == ret.value.posiciones_maximos
            minimos == ret.value.posiciones_minimos
        IN  /\ \A i \in 1..(Len(maximos) - 1) :
                  /\ IsFinite(maximos[i]) /\ IsFinite(maximos[i + 1])
                  /\ MenorEstricto(maximos[i], maximos[i + 1])
            /\ \A i \in 1..(Len(minimos) - 1) :
                  /\ IsFinite(minimos[i]) /\ IsFinite(minimos[i + 1])
                  /\ MenorEstricto(minimos[i], minimos[i + 1])

\* C17 witness: a query for n_max >= 2, whose sequences run from a
\* negative first position to a positive last one.
C17_Witness ==
    /\ RetFranjas
    /\ ret.args[1] >= 2
    /\ Len(ret.value.posiciones_minimos) >= 4
    /\ ret.value.posiciones_maximos[1][1] < 0
    /\ ret.value.posiciones_minimos[1][1] < 0
    /\ ret.value.posiciones_minimos[Len(ret.value.posiciones_minimos)][1] > 0

-----------------------------------------------------------------------------
(* Properties of the results held by a caller *)

\* The result valor after the caller's writes to the parts in mutado.
ConEscrituras(valor, mutado) ==
    LET v1 == IF "posiciones_maximos" \in mutado
                THEN [valor EXCEPT !.posiciones_maximos[1] = F(9999, 0)]
                ELSE valor
        v2 == IF "posiciones_minimos" \in mutado
                THEN [v1 EXCEPT !.posiciones_minimos[1] = F(9999, 0)]
                ELSE v1
    IN  IF "parametros" \in mutado
          THEN [v2 EXCEPT !.parametros.separacion_um = Zero]
          ELSE v2

GuardadoFranjas == guardado.llamada.op = "calcular_posiciones_franjas"

\* C18: every calcular_posiciones_franjas call returns a new result: a
\* write to the sequences or the parameter dictionary of a result changes
\* that result only.  The experiment stays as constructed, a result held
\* differs from what its call returned by the caller's own writes only
\* (no later call changes it), and a later call returns a different object
\* with the values computed from the experiment.
C18_ResultadoFresco ==
    /\ exp = construido
    /\ GuardadoFranjas =>
          guardado.llamada.value =
              ConEscrituras(PosicionesFranjas(construido,
                                              guardado.llamada.args[1]),
                            guardado.mutado)
    /\ (RetFranjas /\ guardado.entre >= 1) =>
          ret.ref # guardado.llamada.ref
    /\ (RetFranjas /\ (guardado.llamada = Libre
                         \/ ret.ref # guardado.llamada.ref)) =>
          ret.value = PosicionesFranjas(construido, ret.args[1])

\* C18 witness: the caller has written to the maxima and to the
\* dictionary of a result it holds, and the same query made again returns
\* the values without those writes.
C18_Witness ==
    /\ GuardadoFranjas
    /\ RetFranjas
    /\ {"posiciones_maximos", "parametros"} \subseteq guardado.mutado
    /\ guardado.entre >= 1
    /\ ret.args = guardado.llamada.args
    /\ ret.value # guardado.llamada.value
    /\ ret.value.posiciones_maximos[1] # F(9999, 0)

-----------------------------------------------------------------------------
(* Properties of the warnings *)

\* A positive wavelength below 100 nm or above 1000 nm, read off its
\* exponent and mantissa.
FueraDeRango(l) ==
    l[2] < -14 \/ l[2] > -13 \/ (l[2] = -13 /\ l[1] > 10000000)

Avisa(aviso) == \E i \in DOMAIN ret.warnings : ret.warnings[i] = aviso

\* C19: constructing an Onda or an experiment with a positive wavelength
\* outside [100 nm, 1000 nm] succeeds and warns of the range; with a
\* wavelength inside it, 100 nm and 1000 nm included, it succeeds without
\* that warning.
C19_AvisoRango ==
    /\ (ret.op = "Onda" /\ ret.args[1][1] > 0) =>
          /\ ret.raised = ""
          /\ ret.value.longitud_onda = ret.args[1]
          /\ Avisa("rango visible") <=> FueraDeRango(ret.args[1])
    /\ (ret.op = "ExperimentoDobleRendija" /\ ret.raised = "") =>
          /\ ret.value.onda.longitud_onda = ret.args[1]
          /\ Avisa("rango visible") <=> FueraDeRango(ret.args[1])
    /\ (ret.op \in {"Onda", "ExperimentoDobleRendija"}
          /\ ret.raised # "") => ~Avisa("rango visible")

\* C19 witness: an Onda of exactly 1000 nm built without the warning.
C19_Witness ==
    /\ ret.op = "Onda"
    /\ ret.args[1] = F(1000, -9)
    /\ ret.raised = ""
    /\ ret.warnings = <<>>
    /\ ret.value.longitud_onda = F(1000, -9)

\* C20: constructing an experiment with four positive arguments and
\* separacion <= ancho_rendija (equality included) succeeds, with every
\* derived constant computed, and warns of the overlap; with separacion >
\* ancho_rendija it does not warn.
C20_AvisoSolapamiento ==
    /\ (ret.op = "ExperimentoDobleRendija"
          /\ \A i \in 1..4 : ret.args[i][1] > 0) =>
          /\ ret.raised = ""
          /\ ret.value.ancho_rendija = ret.args[2]
          /\ ret.value.separacion = ret.args[3]
          /\ Avisa("solapamiento") <=> MenorIgual(ret.args[3], ret.args[2])
          /\ \A c \in AtributosDerivados :
                IsFinite(ret.value[c]) /\ ret.value[c][1] > 0
          /\ ret.value.num_franjas_visibles \in Nat
          /\ exp = ret.value
    /\ (ret.op = "ExperimentoDobleRendija" /\ ret.raised # "") =>
          ~Avisa("solapamiento")

\* C20 witness: an experiment whose separation equals its slit width (both
\* 50 um), built with the warning and with its derived constants.
C20_Witness ==
    /\ ret.op = "ExperimentoDobleRendija"
    /\ ret.raised = ""
    /\ ret.args[3] = ret.args[2]
    /\ Avisa("solapamiento")
    /\ ret.value.num_franjas_visibles = 2
    /\ exp = ret.value

\* The pair <<m, e>> of a value x > 0 of the format without the trailing
\* zeros of its mantissa.
RECURSIVE SinCeros(_)
SinCeros(x) == IF x[1] % 10 = 0 THEN SinCeros(<<x[1] \div 10, x[2] + 1>>) ELSE x

\* floor(2*d/a) computed exactly from the two arguments.
PisoDosDA(a, d) ==
    LET a0 == SinCeros(a)
        d0 == SinCeros(d)
    IN  IF d0[2] >= a0[2] THEN (2 * d0[1] * Pow10(d0[2] - a0[2])) \div a0[1]
        ELSE (2 * d0[1]) \div (a0[1] * Pow10(a0[2] - d0[2]))

\* C21: after a successful construction num_franjas_visibles is
\* floor(2*d/a), whatever the wavelength and the screen distance; for
\* (632e-9, 100e-6, 400e-6, 1.5) it is 8.
C21_FranjasVisibles ==
    (RetExperimento /\ ret.raised = "") =>
        /\ exp.num_franjas_visibles = PisoDosDA(ret.args[2], ret.args[3])
        /\ ret.args = <<F(6320, -10), F(1000, -7), F(4000, -7), F(1500, -3)>>
              => exp.num_franjas_visibles = 8

\* C22: two experiments are independent.  Each refers to an Onda object of
\* its own, created by its own constructor (an object that did not exist
\* before the call); and an operation on one experiment, whatever came
\* before, leaves the other as it was: its parameters, its derived
\* constants, its Onda and what its queries return.
C22_Independientes ==
    [][\A i \in 1..2 :
          (ret = Libre /\ ret'.op # "none" /\ ret'.instancia = i) =>
              LET j == 3 - i
              IN  /\ Instancia(j)' = Instancia(j)
                  /\ Instancia(j) # NoneObj =>
                        /\ \A n \in OrdenesConsulta :
                              PosicionesFranjas(Instancia(j)', n)
                                  = PosicionesFranjas(Instancia(j), n)
                        /\ \A y \in SecuenciasConsulta :
                              DobleRendijaLocales(Instancia(j)', y)
                                  = DobleRendijaLocales(Instancia(j), y)
                  /\ (ret'.op = "ExperimentoDobleRendija" /\ ret'.raised = "") =>
                        /\ otro'.onda_de[i] \notin {otro.onda_de[1],
                                                    otro.onda_de[2]}
                        /\ otro'.onda_de[i] # otro'.onda_de[j]
                        /\ otro'.ondas[otro'.onda_de[i]] = Instancia(i)'.onda
                  /\ Instancia(j)' # NoneObj =>
                        otro'.ondas[otro'.onda_de[j]] = Instancia(j)'.onda]_vars

\* C22 witness: the second experiment has just been built with another
\* wavelength than the first, which was built before and has been
\* rebuilt since (its Onda is not the first object created).
C22_Witness ==
    /\ ret.op = "ExperimentoDobleRendija"
    /\ ret.raised = ""
    /\ ret.instancia = 2
    /\ exp # NoneObj
    /\ exp.onda.longitud_onda # otro.exp.onda.longitud_onda
    /\ otro.onda_de[1] = 3
    /\ otro.onda_de[2] = 1

Consultas == {"rendija_simple", "doble_rendija", "simular",
              "calcular_posiciones_franjas"}

\* C23: no query modifies the experiment, its Onda or the position
\* sequence the caller passed.  After any sequence of rendija_simple,
\* doble_rendija, simular and calcular_posiciones_franjas calls, accepted
\* or rejected, the wavelength, the three lengths and the four derived
\* constants are those the constructor left, and the array passed to a
\* field function reads as it did when it was passed.
C23_ConsultasSinEfecto ==
    /\ exp = construido
    /\ exp.onda = construido.onda
    /\ \A a \in Atributos : exp[a] = construido[a]
    /\ ret.op \in {"rendija_simple", "doble_rendija"} => ret.y = ret.args[1]

\* C23 witness: doble_rendija has returned its value at 1 mm after at
\* least two other queries, one of them rejected, were made since the
\* caller stored a result.
C23_Witness ==
    /\ ret.op = "doble_rendija"
    /\ ret.args[1] = <<F(1000, -6)>>
    /\ ret.value # <<One>>
    /\ guardado.llamada # Libre
    /\ guardado.entre >= 2
    /\ guardado.fallo

\* C24: a rejected call fails alone and corrects nothing.  simular with a
\* width <= 0 or fewer than 100 points raises instead of going on with
\* other values; a simular or calcular_posiciones_franjas call that raises
\* returns nothing and leaves the experiment as constructed; and a valid
\* call made after a rejected one returns what the same call returned
\* before it (for calcular_posiciones_franjas, what the constructed
\* experiment gives).
C24_FalloSinCorreccion ==
    /\ (ret.op = "simular"
          /\ (ret.args[1][1] <= 0 \/ ret.args[2] < MinPuntos)) =>
            ret.raised = "ValueError"
    /\ (ret.op \in Consultas /\ ret.raised # "") =>
          /\ ret.value = NoneObj
          /\ "locales" \notin DOMAIN ret
          /\ exp = construido
    /\ (guardado.fallo /\ ret.op = guardado.llamada.op
                       /\ ret.args = guardado.llamada.args) =>
          /\ ret.raised = ""
          /\ ret.value = guardado.llamada.value
    /\ (guardado.fallo /\ RetFranjas) =>
          ret.value = PosicionesFranjas(construido, ret.args[1])

\* C24 witness: simular(0.01, 100) returned, after a rejected call, the
\* pattern the caller had stored from the same call made before.
C24_Witness ==
    /\ RetSimulado
    /\ ret.raised = ""
    /\ guardado.fallo
    /\ guardado.llamada.op = "simular"
    /\ guardado.llamada.args = ret.args
    /\ Len(ret.value[2]) = MinPuntos

\* 2 * pi * x for a value x > 0 of the format (pi as the format has it).
DosPi(x) == FMul(FMul(Two, Pi), x)

\* C25: Onda.fase(distancia) returns k * distancia with k = 2*pi/lambda as
\* set by the constructor, for every distance (2*pi*distancia/lambda up to
\* rounding, 0 at 0, negative for a negative distance, 2*pi after one
\* wavelength), and leaves the Onda as the constructor made it.
C25_Fase ==
    ret.op = "fase" =>
        LET x == ret.args[1]
            l == exp.onda.longitud_onda
        IN  /\ ret.raised = ""
            /\ Cerca(Prod(exp.onda.k, l), DosPi(One))
            /\ x = Zero => ret.value = Zero
            /\ x[1] > 0 => Cerca(Prod(ret.value, l), DosPi(x))
            /\ x[1] < 0 => /\ ret.value[1] < 0
                           /\ Cerca(Prod(FNeg(ret.value), l), DosPi(FNeg(x)))
            /\ x = l => Cerca(<<ret.value[1], ret.value[2]>>, DosPi(One))
            /\ exp = construido
            /\ exp.onda = construido.onda

\* C25 witness: the phase after one wavelength of 632 nm, about 6.28, and
\* the wavenumber about 9.94e6.
C25_Witness ==
    /\ ret.op = "fase"
    /\ ret.args[1] = F(6320, -10)
    /\ exp.onda.longitud_onda = F(6320, -10)
    /\ exp.onda.k[2] = -1
    /\ exp.onda.k[1] \in 99300000..99500000
    /\ ret.value[2] = -7
    /\ ret.value[1] \in 62700000..62950000

\* C26 as stated: division(c1, c2) raises ValueError exactly when
\* c2 = (0, 0); for every other c2 it returns the quotient, and the product
\* of the quotient by c2 is c1.
C26_Division ==
    ret.op = "division" =>
        LET c1 == ret.args[1]
            c2 == ret.args[2]
        IN  /\ (ret.raised = "ValueError") <=> c2 = <<Zero, Zero>>
            /\ ret.raised = "" => producto(ret.value, c2) = c1

\* A component that is an integer, and two complex numbers with integer
\* components (whose products are exact).
EsEntero(x) == x[2] >= -7 /\ x = IntToF(FTrunc(x))
EnterosChicos(c1, c2) ==
    EsEntero(c1[1]) /\ EsEntero(c1[2]) /\ EsEntero(c2[1]) /\ EsEntero(c2[2])

\* C27: producto((a, b), (c, d)) is (a*c - b*d, a*d + b*c): it is
\* commutative, (0, 0) absorbs, (1, 0) is neutral, and the product of c by
\* conjugado(c) = (a, -b) is (a^2 + b^2, 0).
C27_Producto ==
    /\ ret.op = "producto" =>
          LET c1 == ret.args[1]
              c2 == ret.args[2]
          IN  /\ ret.raised = ""
              /\ EnterosChicos(c1, c2) =>
                    ret.value =
                        <<IntToF(FTrunc(c1[1]) * FTrunc(c2[1])
                                   - FTrunc(c1[2]) * FTrunc(c2[2])),
                          IntToF(FTrunc(c1[1]) * FTrunc(c2[2])
                                   + FTrunc(c1[2]) * FTrunc(c2[1]))>>
              /\ ret.value = producto(c2, c1)
              /\ c1 = <<Zero, Zero>> => ret.value = <<Zero, Zero>>
              /\ c2 = <<Zero, Zero>> => ret.value = <<Zero, Zero>>
              /\ c1 = <<One, Zero>> => ret.value = c2
              /\ c2 = <<One, Zero>> => ret.value = c1
    /\ ret.op = "conjugado" =>
          LET c == ret.args[1]
          IN  /\ ret.value = <<c[1], FNeg(c[2])>>
              /\ producto(c, ret.value)
                    = <<FAdd(Mul(c[1], c[1]), Mul(c[2], c[2])), Zero>>
              /\ EnterosChicos(c, c) =>
                    producto(c, ret.value)
                        = <<IntToF(FTrunc(c[1]) * FTrunc(c[1])
                                     + FTrunc(c[2]) * FTrunc(c[2])), Zero>>

\* C27 witness: producto((1, 2), (3, -1)) = (5, 5) has been computed.
C27_Witness ==
    /\ ret.op = "producto"
    /\ ret.args = <<<<One, IntToF(2)>>, <<IntToF(3), IntToF(-1)>>>>
    /\ ret.value = <<IntToF(5), IntToF(5)>>

\* The first of the four arguments that is <= 0, 0 when all are positive.
PrimeroNoPositivo(args) ==
    IF \A i \in 1..4 : args[i][1] > 0 THEN 0
    ELSE CHOOSE i \in 1..4 :
            /\ args[i][1] <= 0
            /\ \A j \in 1..(i - 1) : args[j][1] > 0

MensajeDe(i) ==
    CASE i = 1 -> "La longitud de onda debe ser positiva"
      [] i = 2 -> "El ancho de rendija debe ser positivo"
      [] i = 3 -> "La separacion debe ser positiva"
      [] i = 4 -> "La distancia a la pantalla debe ser positiva"

\* C28: the constructor validates before it warns or builds.  The error
\* is that of the first non-positive argument in the order wavelength,
\* width, separation, distance; a rejected construction has warned of
\* nothing, created no Onda and changed nothing; an accepted one warns of
\* the overlap first and of the wavelength range second, and refers to an
\* Onda created by the call.
C28_ValidaAntes ==
    [][(ret = Libre /\ ret'.op = "ExperimentoDobleRendija") =>
          LET args == ret'.args
              p == PrimeroNoPositivo(args)
              i == ret'.instancia
          IN  /\ p # 0 =>
                    /\ ret'.raised = "ValueError"
                    /\ ret'.msg = MensajeDe(p)
                    /\ ret'.warnings = <<>>
                    /\ ret'.value = NoneObj
                    /\ otro' = otro
                    /\ exp' = exp
              /\ p = 0 =>
                    /\ ret'.raised = ""
                    /\ ret'.warnings =
                          (IF MenorIgual(args[3], args[2])
                             THEN <<"solapamiento">> ELSE <<>>)
                          \o (IF FueraDeRango(args[1])
                                THEN <<"rango visible">> ELSE <<>>)
                    /\ otro'.onda_de[i] \notin {otro.onda_de[1],
                                                otro.onda_de[2]}
                    /\ otro'.ondas[otro'.onda_de[i]].longitud_onda = args[1]
                    /\ (IF i = 1 THEN exp' ELSE otro'.exp) = ret'.value]_vars

\* C28 witness: a construction whose wavelength (50 nm) and separation
\* (equal to the width) call for both warnings was rejected for its
\* distance 0, without a warning, while both experiments exist.
C28_Witness ==
    /\ ret.op = "ExperimentoDobleRendija"
    /\ ret.raised = "ValueError"
    /\ ret.msg = "La distancia a la pantalla debe ser positiva"
    /\ ret.args = <<F(5000, -11), F(5000, -8), F(5000, -8), Zero>>
    /\ ret.warnings = <<>>
    /\ exp # NoneObj
    /\ otro.exp # NoneObj

\* The sequence y with every position negated.
Opuestas(y) == [i \in DOMAIN y |-> FNeg(y[i])]

\* C29: both fields are even in the position.  In a call of rendija_simple
\* or doble_rendija two positions that are opposite get the same value,
\* and the call returns what it returns on the opposite positions, also
\* where the guard replaces a tiny beta of either sign by +1e-12.
C29_CamposPares ==
    RetDirecto =>
        LET y == ret.args[1]
        IN  /\ \A i, j \in DOMAIN y :
                  y[i] = FNeg(y[j]) => ret.value[i] = ret.value[j]
            /\ ret.op = "rendija_simple" =>
                  ret.value = Valores(RendijaSimpleLocales(exp, Opuestas(y)))
            /\ ret.op = "doble_rendija" =>
                  ret.value = Valores(DobleRendijaLocales(exp, Opuestas(y)))

\* C29 witness: doble_rendija at 1 mm and -1 mm, with opposite phases and
\* one value strictly between 0 and 1.
C29_Witness ==
    /\ ret.op = "doble_rendija"
    /\ ret.args[1] = <<F(1000, -6), F(-1000, -6)>>
    /\ ret.locales[1].delta = FNeg(ret.locales[2].delta)
    /\ ret.locales[1].delta[1] > 0
    /\ ret.value[1] = ret.value[2]
    /\ ret.value[1][1] > 0
    /\ ret.value[1] # One

-----------------------------------------------------------------------------
(* Measurements the comparison rejects *)

\* All the positions of y are the same value.
TodasIguales(y) == \A i \in 1..Len(y) : y[i] = y[1]

\* C30: comparar_experimento_teoria inherits the sampling checks of
\* simular: with fewer than 100 measured positions, or with all of them
\* equal, the call fails with ValueError (the width message when the
\* positions are equal, else the message about the points), no statistics
\* are returned, nothing of the comparison was computed, drawn or printed,
\* no figure is left shown, and the experiment is as it was (but for the
\* attributes a callback of an earlier figure has reassigned).
C30_CompararValida ==
    (/\ ret.op = "comparar_experimento_teoria"
     /\ Len(ret.args[1]) < 100 \/ TodasIguales(ret.args[1])) =>
        /\ ret.raised = "ValueError"
        /\ ret.msg = (IF TodasIguales(ret.args[1])
                        THEN "El ancho de la pantalla debe ser positivo"
                        ELSE "Se requieren al menos 100 puntos para una buena resolucion")
        /\ ret.value = NoneObj
        /\ ret.efectos = <<>>
        /\ "locales" \notin DOMAIN ret
        /\ figura = Libre
        /\ \A a \in Atributos \ reasignados : exp[a] = construido[a]

\* Witness of C30: 100 equal positions were rejected for their width, which
\* the number of points alone would not have rejected.
C30_Witness ==
    /\ ret.op = "comparar_experimento_teoria"
    /\ Len(ret.args[1]) = 100
    /\ TodasIguales(ret.args[1])
    /\ ret.raised = "ValueError"
    /\ ret.msg = "El ancho de la pantalla debe ser positivo"
    /\ ret.value = NoneObj

=============================================================================
